---- MODULE Spec2Model ----
(***************************************************************************)
(* Model of services/ical.py (MultiCalendarService): the feed registry,    *)
(* the fetcher, the refresh scheduler and the registry lock.               *)
(*                                                                         *)
(* Python values are written as follows: None is the string "None" for a   *)
(* calendar or an error, 0 for a timestamp, NoRef for a reference; a        *)
(* falsy url or name argument (None or '') is the empty string.            *)
(***************************************************************************)
EXTENDS Integers, Sequences, FiniteSets, TLC

VARIABLES
    feeds,          \* self.feeds: the dict, as the sequence of its values in insertion order (object references)
    nentries,       \* self.feeds: the entries its table has taken since it was built (deleted ones included)
    obj,            \* the CalendarFeed objects, by object reference
    lock,           \* self._lock: "free" or the thread holding it
    refresh_timer,  \* self._refresh_timer: "None" or "Timer" (a reference to the latest Timer)
    timer,          \* state of the latest Timer object: "none", "armed", "cancelled", "fired"
    constructed,    \* __init__ has returned
    stopped,        \* stop() has returned at least once
    pc,             \* position of every thread in the operation it runs
    loc,            \* locals of every thread (arguments, iterator, references, result)
    call            \* the latest call of a function of the query layer: its name, arguments and return value

vars == <<feeds, nentries, obj, lock, refresh_timer, timer, constructed, stopped, pc, loc, call>>

-----------------------------------------------------------------------------
(* Bounds of the model *)

MaxIncarnations == 2  \* CalendarFeed objects of one url alive at once
MaxTime == 2          \* datetime.now(UTC) reads 1..MaxTime
MaxEntries == 3       \* insertions into self.feeds before its table is rebuilt; the model stops short of a rebuild

-----------------------------------------------------------------------------
(* Strings *)

StartsWith(s, p) == Len(s) >= Len(p) /\ SubSeq(s, 1, Len(p)) = p

EndsWith(s, p) == Len(s) >= Len(p) /\ SubSeq(s, Len(s) - Len(p) + 1, Len(s)) = p

\* s.find(p, from): first index >= from where p occurs in s, 0 when none
RECURSIVE IndexFrom(_, _, _)
IndexFrom(s, p, from) ==
    IF from + Len(p) - 1 > Len(s) THEN 0
    ELSE IF SubSeq(s, from, from + Len(p) - 1) = p THEN from
    ELSE IndexFrom(s, p, from + 1)

\* index of the last occurrence of p in s, 0 when none
RECURSIVE LastIndex(_, _, _)
LastIndex(s, p, from) ==
    IF from < 1 THEN 0
    ELSE IF from + Len(p) - 1 <= Len(s) /\ SubSeq(s, from, from + Len(p) - 1) = p THEN from
    ELSE LastIndex(s, p, from - 1)

\* s.replace(p, '')
RECURSIVE Remove(_, _)
Remove(s, p) ==
    LET i == IndexFrom(s, p, 1) IN
    IF i = 0 THEN s
    ELSE SubSeq(s, 1, i - 1) \o Remove(SubSeq(s, i + Len(p), Len(s)), p)

\* s.strip('/')
RECURSIVE StripSlashes(_)
StripSlashes(s) ==
    IF s = "" THEN s
    ELSE IF SubSeq(s, 1, 1) = "/" THEN StripSlashes(SubSeq(s, 2, Len(s)))
    ELSE IF SubSeq(s, Len(s), Len(s)) = "/" THEN StripSlashes(SubSeq(s, 1, Len(s) - 1))
    ELSE s

-----------------------------------------------------------------------------
(* Inputs: the URLs and names the callers pass *)

UrlWork == "https://a.example.org/work.ics"
UrlTeam == "http://b.example.org/team"
UrlHome == "webcal://www.c.example.org/home.ics"
UrlColl1 == "http://cal.example.com/u276061.ics"
UrlColl2 == "webcal://cal.example.com/u2255.ics"
UrlFtp == "ftp://a.example.org/work.ics"
UrlUpper == "HTTPS://a.example.org/work.ics"

\* hashlib.md5(url.encode()).hexdigest()[:8], tabulated for the URLs of the model
Md5Prefix(url) ==
    CASE url = UrlWork -> "6de2591e"
      [] url = UrlTeam -> "a0df6b24"
      [] url = UrlHome -> "45b6df8c"
      [] url = UrlColl1 -> "727f65a7"
      [] url = UrlColl2 -> "727f65a7"
      [] url = UrlFtp -> "9fe021fa"
      [] url = UrlUpper -> "76c6dc34"
      [] url = "" -> "d41d8cd9"

\* urlparse(url).netloc and .path for scheme://netloc/path URLs without query or fragment
UrlAfterScheme(url) ==
    LET i == IndexFrom(url, "://", 1) IN
    IF i = 0 THEN "" ELSE SubSeq(url, i + 3, Len(url))

UrlNetloc(url) ==
    LET r == UrlAfterScheme(url)
        j == IndexFrom(r, "/", 1)
    IN IF j = 0 THEN r ELSE SubSeq(r, 1, j - 1)

UrlPath(url) ==
    LET r == UrlAfterScheme(url)
        j == IndexFrom(r, "/", 1)
    IN IF IndexFrom(url, "://", 1) = 0 THEN url
       ELSE IF j = 0 THEN "" ELSE SubSeq(r, j, Len(r))

GenerateNameFromUrl(url) ==
    LET net == Remove(UrlNetloc(url), "www.")
        d == IndexFrom(net, ".", 1)
        domain == IF d = 0 THEN net ELSE SubSeq(net, 1, d - 1)
        stripped == StripSlashes(UrlPath(url))
        k == LastIndex(stripped, "/", Len(stripped))
        path == IF k = 0 THEN stripped ELSE SubSeq(stripped, k + 1, Len(stripped))
    IN IF path # "" /\ ~EndsWith(path, ".ics") THEN domain \o "-" \o path
       ELSE IF domain # "" THEN domain ELSE "calendar"

\* references to CalendarFeed objects: the url and which of its objects; NoRef is None
FeedUrls == {UrlWork, UrlTeam, UrlHome, UrlColl1, UrlColl2}
Refs == FeedUrls \X (1..MaxIncarnations)
NoRef == <<"", 0>>

\* _generate_name_from_url on the urls of the model, computed once
DefaultName == [url \in FeedUrls |-> GenerateNameFromUrl(url)]

\* CalendarFeed.__init__
CalendarFeed(url, name) ==
    [url |-> url,
     name |-> IF name # "" THEN name ELSE DefaultName[url],
     id |-> Md5Prefix(url),
     calendar |-> "None",
     last_fetch |-> 0,
     error |-> "None",
     good |-> "None"]   \* history: the calendar of the last successful fetch of this object

\* a slot of the object table that holds no object
NoFeed == [url |-> "", name |-> "", id |-> "", calendar |-> "None", last_fetch |-> 0, error |-> "None", good |-> "None"]

-----------------------------------------------------------------------------
(* The registry: self.feeds and the objects it refers to *)

Range(f) == {f[i] : i \in 1..Len(f)}

\* position of key `id` in the dict, 0 when the key is absent
KeyIndex(f, o, id) ==
    IF \E i \in 1..Len(f) : o[f[i]].id = id
    THEN CHOOSE i \in 1..Len(f) : o[f[i]].id = id
    ELSE 0

\* variant: a lookup by name alone
FindFeedByName(f, o, identifier) ==
    LET hits == {i \in 1..Len(f) : o[f[i]].name = identifier}
    IN IF hits # {} THEN f[CHOOSE i \in hits : \A j \in hits : i <= j] ELSE NoRef

\* _find_feed: the key first, then the first value whose url or name matches
FindFeed(f, o, identifier) ==
    LET k == KeyIndex(f, o, identifier)
        hits == {i \in 1..Len(f) : o[f[i]].url = identifier \/ o[f[i]].name = identifier}
    IN IF k # 0 THEN f[k]
       ELSE IF hits # {} THEN f[CHOOSE i \in hits : \A j \in hits : i <= j]
       ELSE NoRef

\* variant: webcal:// is not accepted
ValidateUrlNoWebcal(url) ==
    IF url = "" THEN "ValueError: required"
    ELSE IF ~(StartsWith(url, "http://") \/ StartsWith(url, "https://"))
    THEN "ValueError: invalid format"
    ELSE "ok"

\* _validate_url: "ok", or the ValueError it raises
ValidateUrl(url) ==
    IF url = "" THEN "ValueError: required"
    ELSE IF ~(StartsWith(url, "http://") \/ StartsWith(url, "https://") \/ StartsWith(url, "webcal://"))
    THEN "ValueError: invalid format"
    ELSE "ok"

\* variant: the scan compares the names
RegisteredUrlByName(f, o, url) ==
    LET hits == {i \in 1..Len(f) : o[f[i]].name = url}
    IN IF hits # {} THEN f[CHOOSE i \in hits : \A j \in hits : i <= j] ELSE NoRef

\* add_feed's scan `for feed in self.feeds.values(): if feed.url == url`: the match, None when none
RegisteredUrl(f, o, url) ==
    LET hits == {i \in 1..Len(f) : o[f[i]].url = url}
    IN IF hits # {} THEN f[CHOOSE i \in hits : \A j \in hits : i <= j] ELSE NoRef

\* self.feeds[feed.id] = feed: an existing key keeps its position, a new key goes last
DictSet(f, o, id, ref) ==
    LET k == KeyIndex(f, o, id)
    IN IF k # 0 THEN [f EXCEPT ![k] = ref] ELSE Append(f, ref)

\* variant: the entry stays
DictDelKeepAll(f, o, id) == f

\* del self.feeds[id], for a key that is present
DictDel(f, o, id) ==
    LET k == KeyIndex(f, o, id)
    IN [i \in 1..(Len(f) - 1) |-> IF i < k THEN f[i] ELSE f[i + 1]]

-----------------------------------------------------------------------------
(* The fetcher: _refresh_single_calendar *)

Calendars == {"CalA", "CalB"}

\* what the GET and the parse of one fetch yield
Outcomes ==
    {[kind |-> "ok", cal |-> c] : c \in Calendars}
    \cup {[kind |-> k, cal |-> "None"] : k \in {"Timeout", "HTTPError", "Exception"}}

\* str(e), or the literal the Timeout handler stores
ErrorText(outcome) ==
    CASE outcome.kind = "Timeout" -> "Connection timeout"
      [] outcome.kind = "HTTPError" -> "404 Client Error: Not Found for url"
      [] outcome.kind = "Exception" -> "Found no components where exactly one is required"

\* variant: a failed fetch clears the calendar
RefreshedBlanking(feed, outcome, t) ==
    IF outcome.kind = "ok"
    THEN [feed EXCEPT !.calendar = outcome.cal, !.last_fetch = t, !.error = "None"]
    ELSE [feed EXCEPT !.calendar = "None", !.last_fetch = 0, !.error = ErrorText(outcome)]

\* the feed object after the body of _refresh_single_calendar, by outcome
Refreshed(feed, outcome, t) ==
    IF outcome.kind = "ok"
    THEN [feed EXCEPT !.calendar = outcome.cal, !.last_fetch = t, !.error = "None"]
    ELSE [feed EXCEPT !.error = ErrorText(outcome)]

\* the dict _refresh_single_calendar returns
RefreshResult(feed, outcome) ==
    [status |-> IF outcome.kind = "ok" THEN "success" ELSE "error",
     feed_id |-> feed.id,
     feed_name |-> feed.name,
     detail |-> outcome.kind]

\* the VEVENT components of a parsed calendar, by uid
EventsOf(cal) ==
    CASE cal = "CalA" -> {"ev1"}
      [] cal = "CalB" -> {"ev1", "ev2"}
      [] cal = "None" -> {}

-----------------------------------------------------------------------------
(* Threads: the scheduler thread (the constructor, then each Timer thread in
   turn) and the threads of the tool layer that call the service *)

Scheduler == "sched"
Callers == {"c1"}
Threads == {Scheduler} \cup Callers

\* no function of the query layer has been called
NoCall == [fn |-> "none"]

NoResult == [status |-> "none", feed_id |-> "", feed_name |-> "", detail |-> ""]

Result(status, id, name, detail) ==
    [status |-> status, feed_id |-> id, feed_name |-> name, detail |-> detail]

\* locals of a thread that runs nothing
IdleLoc ==
    [op |-> "none", arg |-> "", target |-> NoRef, used |-> 0, idx |-> 0, snap |-> <<>>,
     attempted |-> {}, stable |-> {}, events |-> {}, result |-> NoResult]

\* locals at the `for feed_id, feed in self.feeds.items()` of refresh_all_calendars
LoopLoc(op, f) ==
    [IdleLoc EXCEPT !.op = op, !.used = Len(f), !.stable = Range(f)]

\* the objects something still refers to; the others are collected
Live(f, l) ==
    Range(f) \cup {l[t].target : t \in Threads} \cup UNION {Range(l[t].snap) : t \in Threads}

Collect(o, f, l) == [r \in Refs |-> IF r \in Live(f, l) THEN o[r] ELSE NoFeed]

\* the references a new object of `url` can take
FreeRefs(url) == {r \in Refs : r[1] = url} \ Live(feeds, loc)

NewRef(url) == CHOOSE r \in FreeRefs(url) : \A q \in FreeRefs(url) : r[2] <= q[2]

\* the feed_configs the constructor is given (urls, names absent)
Configs == {<<>>, <<UrlWork, UrlTeam>>}

\* the URLs and identifiers the callers of the concurrent model pass
CallUrls == {UrlWork, UrlFtp}
CallIdents == {UrlWork, "b-team"}

\* state when __init__ has filled self.feeds and is about to call refresh_all_calendars
Init ==
    /\ \E cfg \in Configs :
        /\ feeds = [i \in 1..Len(cfg) |-> <<cfg[i], 1>>]
        /\ nentries = Len(cfg)
        /\ obj = [r \in Refs |-> IF r[2] = 1 /\ r[1] \in Range(cfg) THEN CalendarFeed(r[1], "") ELSE NoFeed]
        /\ loc = [t \in Threads |->
                    IF t = Scheduler THEN LoopLoc("construct", [i \in 1..Len(cfg) |-> <<cfg[i], 1>>]) ELSE IdleLoc]
    /\ lock = "free"
    /\ refresh_timer = "None"
    /\ timer = "none"
    /\ constructed = FALSE
    /\ stopped = FALSE
    /\ pc = [t \in Threads |-> IF t = Scheduler THEN "loop" ELSE "idle"]
    /\ call = NoCall

LoopOps == {"construct", "auto", "refresh_all"}

\* refresh_all_calendars, one turn of its loop: the dict iterator's next()
LoopNext(t) ==
    /\ pc[t] = "loop"
    /\ IF Len(feeds) # loc[t].used
       THEN \* RuntimeError: dictionary changed size during iteration
            /\ pc' = [pc EXCEPT ![t] = IF loc[t].op = "refresh_all" THEN "idle" ELSE "resched"]
            /\ loc' = [loc EXCEPT ![t].result = Result("RuntimeError", "", "", "dictionary changed size during iteration")]
       ELSE IF loc[t].idx >= Len(feeds)
       THEN /\ pc' = [pc EXCEPT ![t] = IF loc[t].op = "refresh_all" THEN "idle" ELSE "resched"]
            /\ loc' = [loc EXCEPT ![t].result = Result("success", "", "", "feeds_refreshed")]
       ELSE /\ pc' = [pc EXCEPT ![t] = "want_lock"]
            /\ loc' = [loc EXCEPT ![t].idx = @ + 1,
                                  ![t].target = feeds[loc[t].idx + 1],
                                  ![t].attempted = @ \cup {feeds[loc[t].idx + 1]}]
    /\ UNCHANGED <<feeds, nentries, obj, lock, refresh_timer, timer, constructed, stopped, call>>

\* _refresh_single_calendar: `with self._lock:` entered, the GET sent
FetchAcquire(t) ==
    /\ pc[t] = "want_lock"
    /\ lock = "free"
    /\ lock' = t
    /\ pc' = [pc EXCEPT ![t] = "in_fetch"]
    /\ UNCHANGED <<feeds, nentries, obj, refresh_timer, timer, constructed, stopped, loc, call>>

\* variant: the lock stays held when the fetch fails
FetchUpdateHoldingOnError(t, outcome, clock) ==
    /\ pc[t] = "in_fetch"
    /\ LET feed == Refreshed(obj[loc[t].target], outcome, clock)
           hist == [feed EXCEPT !.good = IF outcome.kind = "ok" THEN outcome.cal ELSE @]
           l1 == [loc EXCEPT ![t].result = RefreshResult(feed, outcome), ![t].target = NoRef]
       IN /\ loc' = l1
          /\ obj' = Collect([obj EXCEPT ![loc[t].target] = hist], feeds, l1)
    /\ lock' = IF outcome.kind = "ok" THEN "free" ELSE lock
    /\ pc' = [pc EXCEPT ![t] = IF loc[t].op \in LoopOps THEN "loop" ELSE "idle"]
    /\ UNCHANGED <<feeds, nentries, refresh_timer, timer, constructed, stopped, call>>

\* _refresh_single_calendar: the response or the exception handled, the lock released;
\* clock is what datetime.now(UTC) reads
FetchUpdate(t, outcome, clock) ==
    /\ pc[t] = "in_fetch"
    /\ LET feed == Refreshed(obj[loc[t].target], outcome, clock)
           hist == [feed EXCEPT !.good = IF outcome.kind = "ok" THEN outcome.cal ELSE @]
           l1 == [loc EXCEPT ![t].result = RefreshResult(feed, outcome), ![t].target = NoRef]
       IN /\ loc' = l1
          /\ obj' = Collect([obj EXCEPT ![loc[t].target] = hist], feeds, l1)
    /\ lock' = "free"
    /\ pc' = [pc EXCEPT ![t] = IF loc[t].op \in LoopOps THEN "loop" ELSE "idle"]
    /\ UNCHANGED <<feeds, nentries, refresh_timer, timer, constructed, stopped, call>>

\* _schedule_refresh, at the end of __init__ and in the finally of _auto_refresh
ScheduleRefresh ==
    /\ pc[Scheduler] = "resched"
    /\ refresh_timer' = "Timer"
    /\ timer' = "armed"
    /\ constructed' = TRUE
    /\ pc' = [pc EXCEPT ![Scheduler] = "idle"]
    /\ loc' = [loc EXCEPT ![Scheduler] = IdleLoc]
    /\ UNCHANGED <<feeds, nentries, obj, lock, stopped, call>>

\* the Timer's interval elapses: its thread calls _auto_refresh
TimerFire ==
    /\ timer = "armed"
    /\ pc[Scheduler] = "idle"
    /\ timer' = "fired"
    /\ pc' = [pc EXCEPT ![Scheduler] = "loop"]
    /\ loc' = [loc EXCEPT ![Scheduler] = LoopLoc("auto", feeds)]
    /\ UNCHANGED <<feeds, nentries, obj, lock, refresh_timer, constructed, stopped, call>>

\* stop()
Stop(t) ==
    /\ constructed
    /\ pc[t] = "idle"
    /\ IF refresh_timer # "None"
       THEN /\ timer' = IF timer = "armed" THEN "cancelled" ELSE timer
            /\ refresh_timer' = "None"
       ELSE UNCHANGED <<timer, refresh_timer>>
    /\ stopped' = TRUE
    /\ loc' = [loc EXCEPT ![t] = [IdleLoc EXCEPT !.op = "stop", !.result = Result("stopped", "", "", "")]]
    /\ UNCHANGED <<feeds, nentries, obj, lock, constructed, pc, call>>

\* every thread forgets the object `ref` as one that stayed registered through its refresh
Unstable(l, ref) == [u \in Threads |-> [l[u] EXCEPT !.stable = @ \ {ref}]]

\* add_feed up to the call of _refresh_single_calendar
AddFeed(t, url, name) ==
    /\ constructed
    /\ pc[t] = "idle"
    /\ LET v == ValidateUrl(url)
           ex == RegisteredUrl(feeds, obj, url)
           feed == CalendarFeed(url, name)
           k == KeyIndex(feeds, obj, feed.id)
           new == NewRef(url)
           f1 == DictSet(feeds, obj, feed.id, new)
           l0 == IF k = 0 THEN loc ELSE Unstable(loc, feeds[k])
           l1 == [l0 EXCEPT ![t] = [IdleLoc EXCEPT !.op = "add", !.arg = url, !.target = new]]
       IN IF v # "ok"
          THEN /\ loc' = [loc EXCEPT ![t] = [IdleLoc EXCEPT !.op = "add", !.arg = url,
                                                !.result = Result(v, "", "", url)]]
               /\ UNCHANGED <<feeds, nentries, obj, pc>>
          ELSE IF ex # NoRef
          THEN /\ loc' = [loc EXCEPT ![t] = [IdleLoc EXCEPT !.op = "add", !.arg = url,
                                                !.result = Result("already_exists", obj[ex].id, obj[ex].name, url)]]
               /\ UNCHANGED <<feeds, nentries, obj, pc>>
          ELSE /\ FreeRefs(url) # {}
               /\ k = 0 => nentries < MaxEntries
               /\ feeds' = f1
               /\ nentries' = IF k = 0 THEN nentries + 1 ELSE nentries
               /\ loc' = l1
               /\ obj' = Collect([obj EXCEPT ![new] = feed], f1, l1)
               /\ pc' = [pc EXCEPT ![t] = "want_lock"]
    /\ UNCHANGED <<lock, refresh_timer, timer, constructed, stopped, call>>

\* remove_feed: _validate_feed_exists, before the lock
RemoveResolve(t, identifier) ==
    /\ constructed
    /\ pc[t] = "idle"
    /\ LET found == FindFeed(feeds, obj, identifier)
       IN IF found = NoRef
          THEN /\ loc' = [loc EXCEPT ![t] = [IdleLoc EXCEPT !.op = "remove", !.arg = identifier,
                                                !.result = Result("ValueError: not found", "", "", identifier)]]
               /\ pc' = pc
          ELSE /\ loc' = [loc EXCEPT ![t] = [IdleLoc EXCEPT !.op = "remove", !.arg = identifier, !.target = found]]
               /\ pc' = [pc EXCEPT ![t] = "rm_lock"]
    /\ UNCHANGED <<feeds, nentries, obj, lock, refresh_timer, timer, constructed, stopped, call>>

\* a dict iterator after the entry at position k is deleted: the entries it has passed are one fewer
IterAfterDel(l, k) ==
    [u \in Threads |-> IF l[u].op \in LoopOps /\ k <= l[u].idx THEN [l[u] EXCEPT !.idx = @ - 1] ELSE l[u]]

\* remove_feed: `with self._lock: del self.feeds[feed.id]` and the return
RemoveDel(t) ==
    /\ pc[t] = "rm_lock"
    /\ lock = "free"
    /\ LET feed == obj[loc[t].target]
           k == KeyIndex(feeds, obj, feed.id)
           f1 == DictDel(feeds, obj, feed.id)
           l1 == [IterAfterDel(Unstable(loc, feeds[k]), k) EXCEPT
                    ![t].target = NoRef, ![t].result = Result("removed", feed.id, feed.name, feed.url)]
           l2 == [loc EXCEPT ![t].target = NoRef, ![t].result = Result("KeyError", feed.id, feed.name, feed.url)]
       IN IF k # 0
          THEN /\ feeds' = f1
               /\ loc' = l1
               /\ obj' = Collect(obj, f1, l1)
          ELSE /\ feeds' = feeds
               /\ loc' = l2
               /\ obj' = Collect(obj, feeds, l2)
    /\ pc' = [pc EXCEPT ![t] = "idle"]
    /\ UNCHANGED <<nentries, lock, refresh_timer, timer, constructed, stopped, call>>

\* refresh_calendar(feed_identifier) up to the call of _refresh_single_calendar
RefreshCalendar(t, identifier) ==
    /\ constructed
    /\ pc[t] = "idle"
    /\ LET found == FindFeed(feeds, obj, identifier)
       IN IF found = NoRef
          THEN /\ loc' = [loc EXCEPT ![t] = [IdleLoc EXCEPT !.op = "refresh_one", !.arg = identifier,
                                                !.result = Result("error", "", "", "Feed not found")]]
               /\ pc' = pc
          ELSE /\ loc' = [loc EXCEPT ![t] = [IdleLoc EXCEPT !.op = "refresh_one", !.arg = identifier, !.target = found]]
               /\ pc' = [pc EXCEPT ![t] = "want_lock"]
    /\ UNCHANGED <<feeds, nentries, obj, lock, refresh_timer, timer, constructed, stopped, call>>

\* refresh_calendar() and refresh_feeds_for_mcp: refresh_all_calendars called by a tool
RefreshAll(t) ==
    /\ constructed
    /\ pc[t] = "idle"
    /\ loc' = [loc EXCEPT ![t] = LoopLoc("refresh_all", feeds)]
    /\ pc' = [pc EXCEPT ![t] = "loop"]
    /\ UNCHANGED <<feeds, nentries, obj, lock, refresh_timer, timer, constructed, stopped, call>>

\* get_events without a filter: feeds_to_query = list(self.feeds.values())
GetEvents(t) ==
    /\ constructed
    /\ pc[t] = "idle"
    /\ loc' = [loc EXCEPT ![t] = [IdleLoc EXCEPT !.op = "get_events", !.snap = feeds]]
    /\ pc' = [pc EXCEPT ![t] = "ge_lock"]
    /\ UNCHANGED <<feeds, nentries, obj, lock, refresh_timer, timer, constructed, stopped, call>>

\* search_events without a filter: feeds_to_query = list(self.feeds.values())
SearchEvents(t) ==
    /\ constructed
    /\ pc[t] = "idle"
    /\ loc' = [loc EXCEPT ![t] = [IdleLoc EXCEPT !.op = "search_events", !.snap = feeds]]
    /\ pc' = [pc EXCEPT ![t] = "ge_lock"]
    /\ UNCHANGED <<feeds, nentries, obj, lock, refresh_timer, timer, constructed, stopped, call>>

\* get_calendar_info: len(self.feeds) read; the feeds themselves are read inside the lock
GetCalendarInfo(t) ==
    /\ constructed
    /\ pc[t] = "idle"
    /\ loc' = [loc EXCEPT ![t] = [IdleLoc EXCEPT !.op = "get_calendar_info"]]
    /\ pc' = [pc EXCEPT ![t] = "ge_lock"]
    /\ UNCHANGED <<feeds, nentries, obj, lock, refresh_timer, timer, constructed, stopped, call>>

\* get_events, search_events, get_calendar_info: `with self._lock:` entered
GetEventsEnter(t) ==
    /\ pc[t] = "ge_lock"
    /\ lock = "free"
    /\ lock' = t
    /\ pc' = [pc EXCEPT ![t] = "ge_read"]
    /\ UNCHANGED <<feeds, nentries, obj, refresh_timer, timer, constructed, stopped, loc, call>>

\* variant: feeds with an error contribute nothing
CollectEventsSkipErrored(o, snap) ==
    UNION {{<<o[snap[i]].id, e>> : e \in IF o[snap[i]].error # "None" THEN {} ELSE EventsOf(o[snap[i]].calendar)}
            : i \in 1..Len(snap)}

\* the events get_events collects from the calendars of the feeds it queries: (feed id, uid)
CollectEvents(o, snap) ==
    UNION {{<<o[snap[i]].id, e>> : e \in EventsOf(o[snap[i]].calendar)} : i \in 1..Len(snap)}

\* get_events, search_events, get_calendar_info: the calendars walked (those of the
\* snapshot, for get_calendar_info those of self.feeds), the lock released, the return
GetEventsReturn(t) ==
    /\ pc[t] = "ge_read"
    /\ LET walked == IF loc[t].op = "get_calendar_info" THEN feeds ELSE loc[t].snap
           l1 == [loc EXCEPT ![t].snap = <<>>,
                             ![t].events = CollectEvents(obj, walked),
                             ![t].result = Result("events", "", "", "")]
       IN /\ loc' = l1
          /\ obj' = Collect(obj, feeds, l1)
    /\ lock' = "free"
    /\ pc' = [pc EXCEPT ![t] = "idle"]
    /\ UNCHANGED <<feeds, nentries, refresh_timer, timer, constructed, stopped, call>>

\* list_feeds: the loop over self.feeds.values() begins; no lock is taken
ListFeeds(t) ==
    /\ constructed
    /\ pc[t] = "idle"
    /\ loc' = [loc EXCEPT ![t] = [IdleLoc EXCEPT !.op = "list_feeds"]]
    /\ pc' = [pc EXCEPT ![t] = "unlocked_read"]
    /\ UNCHANGED <<feeds, nentries, obj, lock, refresh_timer, timer, constructed, stopped, call>>

\* get_feeds_list_resource: the loop over self.feeds.items() begins; no lock is taken
GetFeedsListResource(t) ==
    /\ constructed
    /\ pc[t] = "idle"
    /\ loc' = [loc EXCEPT ![t] = [IdleLoc EXCEPT !.op = "get_feeds_list_resource"]]
    /\ pc' = [pc EXCEPT ![t] = "unlocked_read"]
    /\ UNCHANGED <<feeds, nentries, obj, lock, refresh_timer, timer, constructed, stopped, call>>

\* the status list_feeds reports for a feed; the calendars get_feeds_list_resource walks
FeedStatus(feed) ==
    IF feed.calendar # "None" THEN "loaded" ELSE IF feed.error # "None" THEN "error" ELSE "not_loaded"

\* list_feeds and get_feeds_list_resource: calendar, error and last_fetch of every feed read, the list returned
UnlockedReadReturn(t) ==
    /\ pc[t] = "unlocked_read"
    /\ loc' = [loc EXCEPT ![t].result = Result("listed", "", "", "")]
    /\ pc' = [pc EXCEPT ![t] = "idle"]
    /\ UNCHANGED <<feeds, nentries, obj, lock, refresh_timer, timer, constructed, stopped, call>>

\* the fetch outcomes and clock readings of the scheduling model
SchedOutcomes == {[kind |-> "ok", cal |-> "CalA"], [kind |-> "Timeout", cal |-> "None"]}
SchedTimes == {1}
Times == 1..MaxTime

\* the steps of the operations in progress
Steps(outcomes, times) ==
    \/ \E t \in Threads : LoopNext(t)
    \/ \E t \in Threads : FetchAcquire(t)
    \/ \E t \in Threads, outcome \in outcomes, clock \in times : FetchUpdate(t, outcome, clock)
    \/ ScheduleRefresh
    \/ TimerFire
    \/ \E t \in Callers : RemoveDel(t)
    \/ \E t \in Callers : GetEventsEnter(t)
    \/ \E t \in Callers : GetEventsReturn(t)
    \/ \E t \in Callers : UnlockedReadReturn(t)

\* the calls of the tool layer
Calls ==
    \/ \E t \in Callers : Stop(t)
    \/ \E t \in Callers, url \in CallUrls : AddFeed(t, url, "")
    \/ \E t \in Callers, identifier \in CallIdents : RemoveResolve(t, identifier)
    \/ \E t \in Callers, identifier \in CallIdents : RefreshCalendar(t, identifier)
    \/ \E t \in Callers : RefreshAll(t)
    \/ \E t \in Callers : GetEvents(t)
    \/ \E t \in Callers : ListFeeds(t)
    \/ \E t \in Callers : GetFeedsListResource(t)

Next == Steps(SchedOutcomes, SchedTimes) \/ Calls

Spec == Init /\ [][Next]_vars

-----------------------------------------------------------------------------
(* The fetcher and the queries, with every kind of outcome: the scheduler and one caller *)

FetchCalls ==
    \/ \E t \in Callers, identifier \in CallIdents : RefreshCalendar(t, identifier)
    \/ \E t \in Callers : GetEvents(t)
    \/ \E t \in Callers, identifier \in CallIdents : RemoveResolve(t, identifier)

FetchSteps ==
    \/ \E t \in Threads : LoopNext(t)
    \/ \E t \in Threads : FetchAcquire(t)
    \/ \E t \in Threads, outcome \in Outcomes, clock \in Times : FetchUpdate(t, outcome, clock)
    \/ ScheduleRefresh
    \/ TimerFire
    \/ \E t \in Callers : RemoveDel(t)
    \/ \E t \in Callers : GetEventsEnter(t)
    \/ \E t \in Callers : GetEventsReturn(t)

FetchNext == FetchSteps \/ FetchCalls

FetchSpec == Init /\ [][FetchNext]_vars

-----------------------------------------------------------------------------
(* The registry operations called one after the other by one caller, the timer stopped *)

RegCaller == "c1"

\* the urls, names and identifiers passed to add_feed, remove_feed and refresh_calendar
RegUrls == {"", UrlFtp, UrlUpper, UrlWork, UrlHome, UrlColl1, UrlColl2}
RegNames == {"", "a", UrlWork, "6de2591e"}
RegIdents == {UrlWork, UrlColl1, "a", "cal", "6de2591e", "727f65a7", "nope"}

\* a service constructed without feeds, then stopped: everything but `call`
StoppedService ==
    /\ feeds = <<>>
    /\ nentries = 0
    /\ obj = [r \in Refs |-> NoFeed]
    /\ lock = "free"
    /\ refresh_timer = "None"
    /\ timer = "cancelled"
    /\ constructed = TRUE
    /\ stopped = TRUE
    /\ pc = [t \in Threads |-> "idle"]
    /\ loc = [t \in Threads |-> IdleLoc]

\* a service constructed without feeds, then stopped
RegInit == StoppedService /\ call = NoCall

RegNext ==
    \/ \E url \in RegUrls, name \in RegNames : AddFeed(RegCaller, url, name)
    \/ \E identifier \in RegIdents : RemoveResolve(RegCaller, identifier)
    \/ RemoveDel(RegCaller)
    \/ FetchAcquire(RegCaller)
    \/ \E outcome \in SchedOutcomes, clock \in SchedTimes : FetchUpdate(RegCaller, outcome, clock)

RegSpec == RegInit /\ [][RegNext]_vars

-----------------------------------------------------------------------------
(* The operations that take the registry lock, under fair scheduling *)

LiveCalls ==
    \/ \E t \in Callers, url \in CallUrls : AddFeed(t, url, "")
    \/ \E t \in Callers, identifier \in CallIdents : RemoveResolve(t, identifier)
    \/ \E t \in Callers, identifier \in CallIdents : RefreshCalendar(t, identifier)
    \/ \E t \in Callers : RefreshAll(t)
    \/ \E t \in Callers : GetEvents(t)
    \/ \E t \in Callers : SearchEvents(t)
    \/ \E t \in Callers : GetCalendarInfo(t)

\* a step of thread t that needs nothing but t itself to be taken
Proceeds(t) ==
    \/ LoopNext(t)
    \/ \E outcome \in SchedOutcomes, clock \in SchedTimes : FetchUpdate(t, outcome, clock)
    \/ (t = Scheduler /\ ScheduleRefresh)
    \/ GetEventsReturn(t)

\* a step of thread t that enters `with self._lock:`
Acquires(t) == FetchAcquire(t) \/ RemoveDel(t) \/ GetEventsEnter(t)

LiveNext ==
    \/ \E t \in Threads : Proceeds(t)
    \/ \E t \in Threads : Acquires(t)
    \/ TimerFire
    \/ LiveCalls

\* every GET returns within its timeout and running threads are scheduled; a thread
\* blocked on the lock gets it if the lock is free again and again; the timer fires
LiveSpec ==
    /\ Init /\ [][LiveNext]_vars
    /\ \A t \in Threads : WF_vars(Proceeds(t)) /\ SF_vars(Acquires(t))
    /\ WF_vars(TimerFire)

-----------------------------------------------------------------------------
(* Properties of the fetcher *)

\* thread t completes _refresh_single_calendar in this step
FetchReturns(t) == pc[t] = "in_fetch" /\ pc'[t] # "in_fetch"

\* C1: a failed fetch of a registered feed leaves its calendar and last_fetch as they
\* were, stores a non-empty error and returns status "error"; a feed's calendar or
\* last_fetch changes, or its error is cleared, only in a fetch of that feed that
\* succeeds, which stores a calendar and a last_fetch and clears the error.
C1_FailedFetchKeepsCalendar ==
    [][/\ \A t \in Threads :
            FetchReturns(t) /\ loc[t].target \in Range(feeds) =>
                LET r == loc[t].target
                    res == loc'[t].result
                IN /\ res.status \in {"success", "error"}
                   /\ res.feed_id = obj[r].id
                   /\ res.status = "error" <=> res.detail \in {"Timeout", "HTTPError", "Exception"}
                   /\ res.status = "error" =>
                        /\ obj'[r].calendar = obj[r].calendar
                        /\ obj'[r].last_fetch = obj[r].last_fetch
                        /\ obj'[r].error \notin {"None", ""}
                   /\ res.status = "success" =>
                        /\ obj'[r].calendar \in Calendars
                        /\ obj'[r].last_fetch \in Times
                        /\ obj'[r].error = "None"
       /\ \A r \in Range(feeds) \cap Range(feeds') :
            (\/ obj'[r].calendar # obj[r].calendar
             \/ obj'[r].last_fetch # obj[r].last_fetch
             \/ (obj'[r].error = "None" /\ obj[r].error # "None")) =>
                \E t \in Threads :
                    FetchReturns(t) /\ loc[t].target = r /\ loc'[t].result.status = "success"
      ]_vars

\* C1 witness: refresh_calendar has returned an error for a feed that keeps the
\* calendar and last_fetch of an earlier fetch next to the error
C1_Witness ==
    \E t \in Callers, r \in Range(feeds) :
        /\ pc[t] = "idle" /\ loc[t].op = "refresh_one"
        /\ loc[t].result.status = "error" /\ loc[t].result.detail = "HTTPError"
        /\ loc[t].result.feed_id = obj[r].id
        /\ obj[r].calendar = "CalB" /\ obj[r].last_fetch = MaxTime /\ obj[r].error # "None"

\* C2: a registered feed that has a calendar keeps having one in every step that
\* leaves it registered, and get_events returns, for every feed it queries, the
\* events of the calendar of that feed's last successful fetch, failed fetches since
\* then notwithstanding.
C2_StaleCalendarServed ==
    [][/\ \A r \in Range(feeds) \cap Range(feeds') :
            obj[r].calendar # "None" => obj'[r].calendar # "None"
       /\ \A t \in Callers :
            pc[t] = "ge_read" /\ pc'[t] = "idle" =>
                loc'[t].events =
                    UNION {{<<obj[r].id, e>> : e \in EventsOf(obj[r].good)} : r \in Range(loc[t].snap)}
      ]_vars

\* C2 witness: get_events has returned the events of a feed whose latest fetch failed
C2_Witness ==
    \E t \in Callers, r \in Range(feeds) :
        /\ pc[t] = "idle" /\ loc[t].op = "get_events"
        /\ pc[Scheduler] = "idle" /\ lock = "free"
        /\ obj[r].error = "Connection timeout" /\ obj[r].good = "CalB"
        /\ {<<obj[r].id, "ev1">>, <<obj[r].id, "ev2">>} \subseteq loc[t].events

-----------------------------------------------------------------------------
(* Properties of the refresh scheduler and of the registry lock *)

\* C3: once stop() has returned no refresh timer is armed (so that no scheduled run
\* starts any more), also when stop() was called during a scheduled refresh.
C3_NoTimerAfterStop == stopped => timer # "armed"

\* C4: when a run of refresh_all_calendars started by the constructor or by the timer
\* is over, a fetch was attempted for every feed that was registered throughout the run.
C4_RunFetchesEveryFeed ==
    pc[Scheduler] = "resched" => loc[Scheduler].stable \subseteq loc[Scheduler].attempted

\* C5: calendar, last_fetch and error are written by the holder of the lock only, and
\* no read pass over the feeds is in progress while a fetch is in its critical section.
C5_ReadsExcludeFetch ==
    /\ \A t \in Threads : pc[t] = "in_fetch" => lock = t
    /\ ~ \E t, u \in Threads : pc[t] = "in_fetch" /\ pc[u] \in {"ge_read", "unlocked_read"}

\* the lock is held by the threads inside a `with self._lock:` block and by no other
LockDiscipline ==
    /\ lock \in Threads \cup {"free"}
    /\ \A t \in Threads : lock = t <=> pc[t] \in {"in_fetch", "ge_read"}

\* C6: every thread that is in an operation (a fetch, a refresh of all feeds, get_events,
\* add, remove) returns from it, in every fair interleaving with the scheduled refresh;
\* the lock is held exactly by a thread inside a critical section, so that every path
\* releases it and no thread waits for a lock it holds.
C6_OperationsComplete ==
    /\ []LockDiscipline
    /\ \A t \in Threads : (pc[t] # "idle") ~> (pc[t] = "idle")

\* C6 witness: remove_feed has returned, having taken the lock during a scheduled
\* refresh that now waits for the lock for its next fetch
C6_Witness ==
    \E t \in Callers :
        /\ pc[t] = "idle" /\ loc[t].op = "remove" /\ loc[t].result.status = "removed"
        /\ loc[Scheduler].op = "auto" /\ pc[Scheduler] = "want_lock"
        /\ Len(feeds) < loc[Scheduler].used

-----------------------------------------------------------------------------
(* Properties of the registry operations *)

\* thread t passes from idle into add_feed in this step
AddCalled(t) == pc[t] = "idle" /\ loc'[t].op = "add" /\ loc'[t] # loc[t]

\* thread t passes from idle into remove_feed in this step
RemoveCalled(t) == pc[t] = "idle" /\ loc'[t].op = "remove" /\ loc'[t] # loc[t]

\* some registered feed other than `self` has x as its id, its name or its url
OtherMatches(f, o, self, x) ==
    \E r \in Range(f) \ {self} : o[r].id = x \/ o[r].name = x \/ o[r].url = x

\* the url starts with one of the three accepted schemes
AcceptedScheme(url) ==
    \E scheme \in {"http://", "https://", "webcal://"} :
        Len(url) >= Len(scheme) /\ SubSeq(url, 1, Len(scheme)) = scheme

\* C7 as stated: when add_feed returns for a feed it added, _find_feed returns that feed
\* for its id, for its name and for its url.
C7_AddThenFindAll ==
    [][\A t \in Callers :
        FetchReturns(t) /\ loc[t].op = "add" =>
            LET new == loc[t].target
            IN /\ FindFeed(feeds', obj', obj'[new].id) = new
               /\ FindFeed(feeds', obj', obj'[new].name) = new
               /\ FindFeed(feeds', obj', obj'[new].url) = new
      ]_vars

\* C7 amended: when add_feed returns for a feed it added, _find_feed returns that feed
\* for its id; it returns it for its name, and for its url, when no other registered
\* feed has that identifier as its id, name or url.
C7_AddThenFind ==
    [][\A t \in Callers :
        FetchReturns(t) /\ loc[t].op = "add" =>
            LET new == loc[t].target
            IN /\ new \in Range(feeds')
               /\ obj'[new].url = loc[t].arg
               /\ FindFeed(feeds', obj', obj'[new].id) = new
               /\ ~OtherMatches(feeds', obj', new, obj'[new].name) =>
                    FindFeed(feeds', obj', obj'[new].name) = new
               /\ ~OtherMatches(feeds', obj', new, obj'[new].url) =>
                    FindFeed(feeds', obj', obj'[new].url) = new
      ]_vars

\* C7 witness: add_feed has returned for a feed added to a registry of two others, and
\* neither its name nor its url is an identifier of another feed
C7_Witness ==
    \E t \in Callers, new \in Range(feeds) :
        /\ pc[t] = "idle" /\ loc[t].op = "add" /\ loc[t].result.status \in {"success", "error"}
        /\ loc[t].result.feed_id = obj[new].id /\ loc[t].arg = obj[new].url
        /\ Len(feeds) = 3 /\ feeds[3] = new
        /\ ~OtherMatches(feeds, obj, new, obj[new].name)
        /\ ~OtherMatches(feeds, obj, new, obj[new].url)
        /\ FindFeed(feeds, obj, obj[new].name) = new

\* C8: add_feed with the url of a registered feed returns already_exists with that
\* feed's id and name, starts no fetch and changes neither the registry nor any feed,
\* whatever the name argument.
C8_ReAddChangesNothing ==
    [][\A t \in Callers :
        AddCalled(t) =>
            \A r \in Range(feeds) :
                obj[r].url = loc'[t].arg =>
                    /\ loc'[t].result = Result("already_exists", obj[r].id, obj[r].name, obj[r].url)
                    /\ feeds' = feeds /\ obj' = obj
                    /\ pc'[t] = "idle" /\ lock' = lock
      ]_vars

\* C8 witness: add_feed has returned already_exists for the url of a feed that holds a
\* calendar, while a second feed is registered
C8_Witness ==
    \E t \in Callers, r \in Range(feeds) :
        /\ pc[t] = "idle" /\ loc[t].op = "add" /\ loc[t].result.status = "already_exists"
        /\ loc[t].arg = obj[r].url /\ loc[t].result.feed_id = obj[r].id
        /\ obj[r].calendar = "CalA" /\ obj[r].name = "a" /\ Len(feeds) = 2

\* C9: add_feed raises the ValueError of _validate_url exactly for an empty url and for
\* a url that does not start with http://, https:// or webcal://; when it raises, no
\* fetch starts and the registry and the feeds are unchanged.
C9_InvalidUrlRejected ==
    [][\A t \in Callers :
        AddCalled(t) =>
            LET url == loc'[t].arg
                raised == loc'[t].result.status \in {"ValueError: required", "ValueError: invalid format"}
            IN /\ raised <=> (url = "" \/ ~AcceptedScheme(url))
               /\ raised => feeds' = feeds /\ obj' = obj /\ pc'[t] = "idle" /\ lock' = lock
      ]_vars

\* C9 witness: add_feed has raised for a url of another scheme while a feed is registered
C9_Witness ==
    \E t \in Callers :
        /\ pc[t] = "idle" /\ loc[t].op = "add" /\ loc[t].arg = UrlFtp
        /\ loc[t].result.status = "ValueError: invalid format"
        /\ Len(feeds) >= 1

\* C10: remove_feed raises not-found exactly when the identifier is not the id, name
\* or url of a registered feed, and then changes nothing; otherwise it removes the one
\* feed _find_feed resolves the identifier to: the other feeds stay registered, in
\* their order, with their state unchanged.
C10_RemoveExactlyOne ==
    [][\A t \in Callers :
        /\ RemoveCalled(t) =>
            /\ loc'[t].result.status = "ValueError: not found"
                 <=> ~OtherMatches(feeds, obj, NoRef, loc'[t].arg)
            /\ pc'[t] = "idle" <=> loc'[t].result.status = "ValueError: not found"
            /\ feeds' = feeds /\ obj' = obj
        /\ pc[t] = "rm_lock" /\ pc'[t] = "idle" =>
            LET gone == loc[t].target
                x == loc[t].arg
                at == CHOOSE i \in 1..Len(feeds) : feeds[i] = gone
            IN /\ gone = FindFeed(feeds, obj, x)
               /\ obj[gone].id = x \/ obj[gone].name = x \/ obj[gone].url = x
               /\ loc'[t].result = Result("removed", obj[gone].id, obj[gone].name, obj[gone].url)
               /\ Len(feeds') = Len(feeds) - 1
               /\ \A i \in 1..Len(feeds') : feeds'[i] = IF i < at THEN feeds[i] ELSE feeds[i + 1]
               /\ \A r \in Range(feeds') : obj'[r] = obj[r]
      ]_vars

\* C10 witness: remove_feed has removed one of three feeds by its name; the two others are registered
C10_Witness ==
    \E t \in Callers :
        /\ pc[t] = "idle" /\ loc[t].op = "remove" /\ loc[t].result.status = "removed"
        /\ loc[t].arg = loc[t].result.feed_name
        /\ Len(feeds) = 2
        /\ nentries = 3
        /\ \A i \in 1..2 : obj[feeds[i]].id # loc[t].result.feed_id
        /\ obj[feeds[1]].id = "6de2591e"

-----------------------------------------------------------------------------
(* The query layer: property values, ISO strings and normalized events.
   Instants are minutes since midnight of day 0, UTC. A str is the sequence of
   the numbers its fixed-width fields spell, the separator of date and time
   included as its character code, so that comparing two of them field by field
   is comparing the strings character by character; None and '' are <<>>. *)

MinutesPerDay == 1440
MinutesPerHour == 60

\* a property the component does not have: event.get(...) is None
Absent == [kind |-> "none", at |-> 0, aware |-> FALSE, utcoffset |-> 0]

\* a DATE value: vDDDTypes whose dt is a datetime.date
DateValue(day) == [kind |-> "date", at |-> day, aware |-> FALSE, utcoffset |-> 0]

\* a DATE-TIME value: vDDDTypes whose dt is a datetime, naive or with a utcoffset (minutes)
DateTimeValue(wall, aware, utcoffset) == [kind |-> "datetime", at |-> wall, aware |-> aware, utcoffset |-> utcoffset]

\* dt.replace(tzinfo=UTC) for a naive datetime, dt.astimezone(UTC) for an aware one
ToUTC(v) == IF v.aware THEN v.at - v.utcoffset ELSE v.at

\* datetime.isoformat() of a UTC datetime: YYYY-MM-DDTHH:MM:SS+00:00
IsoFormat(m) == <<m \div MinutesPerDay, 84, (m % MinutesPerDay) \div MinutesPerHour, m % MinutesPerHour>>

\* str() of a UTC datetime: YYYY-MM-DD HH:MM:SS+00:00
StrOfDatetime(m) == <<m \div MinutesPerDay, 32, (m % MinutesPerDay) \div MinutesPerHour, m % MinutesPerHour>>

\* date.isoformat() and str() of a date: YYYY-MM-DD
IsoDate(day) == <<day>>

\* safe_str of a property value that has .dt
SafeStrProp(v) ==
    CASE v.kind = "none" -> <<>>
      [] v.kind = "date" -> IsoDate(v.at)
      [] v.kind = "datetime" -> IsoFormat(ToUTC(v))

\* safe_str of an end that _event_to_dict computed: a datetime or date without .dt, so str(value)
SafeStrComputed(v) ==
    CASE v.kind = "none" -> <<>>
      [] v.kind = "date" -> IsoDate(v.at)
      [] v.kind = "datetime" -> StrOfDatetime(v.at)

\* a DURATION the component does not have
NoDuration == [present |-> FALSE, td |-> 0, has_dt |-> FALSE]

\* a DURATION value of td minutes; has_dt: the installed icalendar gives vDuration a .dt
DurationValue(td, has_dt) == [present |-> TRUE, td |-> td, has_dt |-> has_dt]

\* start_dt + duration.dt: a datetime moves by the timedelta, a date by its whole days
PlusTimedelta(v, td) ==
    IF v.kind = "datetime"
    THEN DateTimeValue(ToUTC(v) + td, TRUE, 0)
    ELSE DateValue(v.at + (td \div MinutesPerDay))

\* _event_to_dict, the end it derives when DTEND is missing: from DURATION, else one
\* hour after a datetime start, else the start date itself; Absent without a start
DerivedEnd(dtstart, duration) ==
    IF dtstart.kind = "none" THEN Absent
    ELSE IF duration.present /\ duration.has_dt THEN PlusTimedelta(dtstart, duration.td)
    ELSE IF dtstart.kind = "datetime" THEN DateTimeValue(ToUTC(dtstart) + MinutesPerHour, TRUE, 0)
    ELSE dtstart

\* _event_to_dict: the normalized event of a component of a feed
EventToDict(component, feed) ==
    [uid |-> component.uid,
     summary |-> component.summary,
     description |-> component.description,
     location |-> component.location,
     start |-> SafeStrProp(component.dtstart),
     end |-> IF component.dtend.kind # "none"
             THEN SafeStrProp(component.dtend)
             ELSE SafeStrComputed(DerivedEnd(component.dtstart, component.duration)),
     all_day |-> component.dtstart.kind = "date",
     status |-> component.status,
     recurrence |-> component.rrule,
     source_feed_name |-> feed.name,
     source_feed_id |-> feed.id]

\* _normalize_datetime of a str: date_parser.parse, naive results taken as UTC; None when it fails
NormalizeDatetime(s) ==
    IF Len(s) = 1 THEN [ok |-> TRUE, at |-> s[1] * MinutesPerDay]
    ELSE IF Len(s) = 4 THEN [ok |-> TRUE, at |-> s[1] * MinutesPerDay + s[3] * MinutesPerHour + s[4]]
    ELSE [ok |-> FALSE, at |-> 0]

\* the components of the model: the day and the times of day they use
Day == 10
DtValues ==
    {Absent, DateValue(Day), DateValue(Day + 1)}
    \cup {DateTimeValue(Day * MinutesPerDay + w, a, o) :
            w \in {30, 600}, a \in BOOLEAN, o \in {0, 300}}
Durations == {NoDuration} \cup {DurationValue(td, h) : td \in {0 - 30, 30, 1500}, h \in BOOLEAN}

Components ==
    [uid : {"u1"}, summary : {"Standup"}, description : {""}, location : {""}, status : {"CONFIRMED"},
     dtstart : DtValues, dtend : DtValues, duration : Durations, rrule : {0}]

\* _event_to_dict about to be called for a component of a feed
EventInit ==
    /\ StoppedService
    /\ call \in [fn : {"_event_to_dict"}, at : {"called"}, component : Components, feed : {CalendarFeed(UrlWork, "")}]

\* _event_to_dict, from its call to its return
EventToDictCall ==
    /\ call.fn = "_event_to_dict" /\ call.at = "called"
    /\ call' = [fn |-> call.fn, at |-> "returned", component |-> call.component, feed |-> call.feed,
                ret |-> EventToDict(call.component, call.feed)]
    /\ UNCHANGED <<feeds, nentries, obj, lock, refresh_timer, timer, constructed, stopped, pc, loc>>

EventNext == EventToDictCall

EventSpec == EventInit /\ [][EventNext]_vars

-----------------------------------------------------------------------------
(* The queries as functions of the registry: a feed is its id, its name and
   the VEVENT components of its calendar in file order (loaded FALSE:
   feed.calendar is None); rrule is the number of daily occurrences of a
   recurring component, 0 for a component without RRULE *)

\* _normalize_datetime of a date or datetime object: the instant, a date at midnight UTC
NormalizeDt(v) == IF v.kind = "date" THEN v.at * MinutesPerDay ELSE ToUTC(v)

\* a < b for two str, character by character, a proper prefix first
LexLess(a, b) ==
    \E i \in 1..Len(b) :
        /\ \A j \in 1..(i - 1) : j <= Len(a) /\ a[j] = b[j]
        /\ (i > Len(a) \/ a[i] < b[i])

\* variant: the list is left in the order it was collected
Unsorted(events) == events

\* events.sort(key=lambda x: x.get('start') or ''): stable, ascending by the start string
RECURSIVE SortByStart(_)
SortByStart(events) ==
    IF events = <<>> THEN <<>>
    ELSE LET rest == SortByStart(SubSeq(events, 1, Len(events) - 1))
             x == events[Len(events)]
             n == Cardinality({i \in 1..Len(rest) : ~LexLess(x.start, rest[i].start)})
         IN SubSeq(rest, 1, n) \o <<x>> \o SubSeq(rest, n + 1, Len(rest))

\* the lists of a list of lists, one after the other (events.append in nested loops)
RECURSIVE Concat(_)
Concat(lists) == IF lists = <<>> THEN <<>> ELSE Head(lists) \o Concat(Tail(lists))

\* variant: the offset is ignored
SliceFromStart(s, from, to) ==
    SubSeq(s, 1, IF to < Len(s) THEN to ELSE Len(s))

\* s[from:to] for from, to >= 0
Slice(s, from, to) ==
    SubSeq(s, (IF from < Len(s) THEN from ELSE Len(s)) + 1, IF to < Len(s) THEN to ELSE Len(s))

\* recurring_ical_events.of(calendar).between(start_dt, end_dt): the occurrences, one per
\* day of a recurring component, that have a start and take place within the span
Between(components, start_dt, end_dt) ==
    LET Occurrence(c, k) ==
            [c EXCEPT !.dtstart = IF @.kind = "none" THEN @ ELSE PlusTimedelta(@, k * MinutesPerDay),
                      !.dtend = IF @.kind = "none" THEN @ ELSE PlusTimedelta(@, k * MinutesPerDay)]
        Ends(c) == IF c.dtend.kind # "none" THEN NormalizeDt(c.dtend)
                   ELSE IF c.duration.present THEN NormalizeDt(c.dtstart) + c.duration.td
                   ELSE NormalizeDt(c.dtstart)
        Within(c) ==
            /\ c.dtstart.kind # "none"
            /\ NormalizeDt(c.dtstart) < end_dt
            /\ (NormalizeDt(c.dtstart) >= start_dt \/ Ends(c) > start_dt)
        Occurrences(c) == [k \in 1..(IF c.rrule = 0 THEN 1 ELSE c.rrule) |-> Occurrence(c, k - 1)]
    IN Concat([i \in 1..Len(components) |-> SelectSeq(Occurrences(components[i]), Within)])

\* get_events, the fallback when the expansion raised: the VEVENTs of calendar.walk()
\* without a start or with a start in the window, where the window has a bound
WalkInWindow(components, start_dt, end_dt) ==
    LET Kept(c) ==
            \/ c.dtstart.kind = "none"
            \/ /\ ~(start_dt.ok /\ NormalizeDt(c.dtstart) < start_dt.at)
               /\ ~(end_dt.ok /\ NormalizeDt(c.dtstart) > end_dt.at)
    IN SelectSeq(components, Kept)

\* get_events for the feeds of `registry` (what feeds_to_query holds): `now` is
\* datetime.now(UTC), limit <<>> is None, `failing` the ids of the feeds whose
\* expansion raises; between() raises for a bound that is None
GetEventsResult(registry, start_date, end_date, now, limit, offset, failing) ==
    LET start_dt == IF start_date # <<>> THEN NormalizeDatetime(start_date) ELSE [ok |-> TRUE, at |-> now]
        end_dt == IF end_date # <<>> THEN NormalizeDatetime(end_date)
                  ELSE [ok |-> start_dt.ok, at |-> start_dt.at + 7 * MinutesPerDay]
        Raw(feed) ==
            IF ~feed.loaded THEN <<>>
            ELSE IF feed.id \in failing \/ ~start_dt.ok \/ ~end_dt.ok
                 THEN WalkInWindow(feed.calendar, start_dt, end_dt)
                 ELSE Between(feed.calendar, start_dt.at, end_dt.at)
        Dicts(feed) == [i \in 1..Len(Raw(feed)) |-> EventToDict(Raw(feed)[i], feed)]
        events == SortByStart(Concat([i \in 1..Len(registry) |-> Dicts(registry[i])]))
    IN IF end_date = <<>> /\ ~start_dt.ok
       THEN [raised |-> "TypeError", events |-> <<>>]
       ELSE [raised |-> "",
             events |-> IF limit # <<>> THEN Slice(events, offset, offset + limit[1])
                        ELSE IF offset > 0 THEN Slice(events, offset, Len(events))
                        ELSE events]

\* str.lower()
RECURSIVE Lower(_)
Lower(s) ==
    IF s = "" THEN s
    ELSE LET i == IndexFrom("ABCDEFGHIJKLMNOPQRSTUVWXYZ", SubSeq(s, 1, 1), 1)
         IN (IF i = 0 THEN SubSeq(s, 1, 1) ELSE SubSeq("abcdefghijklmnopqrstuvwxyz", i, i))
            \o Lower(SubSeq(s, 2, Len(s)))

\* s.replace(old, new) for a one-character old
RECURSIVE Replace(_, _, _)
Replace(s, old, new) ==
    IF s = "" THEN s
    ELSE (IF SubSeq(s, 1, 1) = old THEN new ELSE SubSeq(s, 1, 1)) \o Replace(SubSeq(s, 2, Len(s)), old, new)

\* search_events: query_variations
QueryVariations(query) ==
    {Lower(query), Replace(Lower(query), " ", "_"), Replace(Lower(query), "_", " "), Replace(Lower(query), "-", " ")}

\* search_events without feed_identifiers, over the feeds of self.feeds in order
SearchEventsResult(registry, query) ==
    LET variations == QueryVariations(query)
        In(a, b) == IndexFrom(b, a, 1) # 0
        Named(feed) == \E v \in variations : In(v, Lower(feed.name)) \/ In(Lower(feed.name), v)
        named == SelectSeq(registry, Named)
        feeds_to_query == IF named # <<>> THEN named ELSE registry
        Hit(c) == \E v \in variations : In(v, Lower(c.summary)) \/ In(v, Lower(c.description)) \/ In(v, Lower(c.location))
        Raw(feed) ==
            IF ~feed.loaded THEN <<>>
            ELSE IF \E v \in variations : In(v, Lower(feed.name)) THEN feed.calendar
            ELSE SelectSeq(feed.calendar, Hit)
        Dicts(feed) == [i \in 1..Len(Raw(feed)) |-> EventToDict(Raw(feed)[i], feed)]
    IN IF query = "" THEN <<>>
       ELSE SortByStart(Concat([i \in 1..Len(feeds_to_query) |-> Dicts(feeds_to_query[i])]))

\* get_today_events: get_events from today's midnight UTC to tomorrow's, both as isoformat()
GetTodayEventsResult(registry, now, failing) ==
    LET today == (now \div MinutesPerDay) * MinutesPerDay
        tomorrow == today + MinutesPerDay
    IN GetEventsResult(registry, IsoFormat(today), IsoFormat(tomorrow), now, <<>>, 0, failing)

\* future_events.sort(key=lambda x: x[0]): stable, ascending by the normalised start
RECURSIVE SortByEventDt(_)
SortByEventDt(future_events) ==
    IF future_events = <<>> THEN <<>>
    ELSE LET rest == SortByEventDt(SubSeq(future_events, 1, Len(future_events) - 1))
             x == future_events[Len(future_events)]
             n == Cardinality({i \in 1..Len(rest) : rest[i].event_dt <= x.event_dt})
         IN SubSeq(rest, 1, n) \o <<x>> \o SubSeq(rest, n + 1, Len(rest))

\* get_upcoming_events over the feeds of self.feeds in order: the identifiers that
\* _find_feed does not resolve are dropped, calendar.walk() is not expanded, the
\* components that start at `now` or later are kept, and the first `count` are returned
GetUpcomingEventsResult(registry, now, count, feed_identifiers) ==
    LET Find(identifier) ==
            LET keyed == {k \in 1..Len(registry) : registry[k].id = identifier}
                hits == {k \in 1..Len(registry) : registry[k].url = identifier \/ registry[k].name = identifier}
            IN IF keyed # {} THEN <<registry[CHOOSE k \in keyed : TRUE]>>
               ELSE IF hits # {} THEN <<registry[CHOOSE k \in hits : \A j \in hits : k <= j]>>
               ELSE <<>>
        feeds_to_query ==
            IF feed_identifiers # <<>>
            THEN Concat([i \in 1..Len(feed_identifiers) |-> Find(feed_identifiers[i])])
            ELSE registry
        Future(c) == c.dtstart.kind # "none" /\ NormalizeDt(c.dtstart) >= now
        Raw(feed) == IF ~feed.loaded THEN <<>> ELSE SelectSeq(feed.calendar, Future)
        Pairs(feed) == [i \in 1..Len(Raw(feed)) |->
                           [event_dt |-> NormalizeDt(Raw(feed)[i].dtstart), event |-> EventToDict(Raw(feed)[i], feed)]]
        future_events == SortByEventDt(Concat([i \in 1..Len(feeds_to_query) |-> Pairs(feeds_to_query[i])]))
        first == Slice(future_events, 0, count)
    IN [raised |-> "", events |-> [i \in 1..Len(first) |-> first[i].event]]

\* a VEVENT of the model's calendars
Vevent(uid, summary, dtstart, dtend, duration, rrule) ==
    [uid |-> uid, summary |-> summary, description |-> "", location |-> "", status |-> "CONFIRMED",
     dtstart |-> dtstart, dtend |-> dtend, duration |-> duration, rrule |-> rrule]

\* the components of the calendars: a timed event, a timed event in another zone that
\* starts the day before in UTC, a date-only event, an event without DTSTART, and a
\* daily recurring event at midnight
QueryComponents ==
    {Vevent("u1", "Standup", DateTimeValue(Day * MinutesPerDay + 600, TRUE, 0), Absent, NoDuration, 0),
     Vevent("u2", "Lunch", DateTimeValue(Day * MinutesPerDay + 30, TRUE, 300), Absent, DurationValue(30, TRUE), 0),
     Vevent("u3", "Offsite", DateValue(Day), DateValue(Day + 1), NoDuration, 0),
     Vevent("u4", "Review", Absent, Absent, NoDuration, 0),
     Vevent("u5", "Backup", DateTimeValue(Day * MinutesPerDay, FALSE, 0), Absent, NoDuration, 2)}

\* the registries: one or two feeds, each not loaded or with a calendar of up to two components
QueryRegistries ==
    LET Cals == {<<>>} \cup {<<a>> : a \in QueryComponents}
                     \cup {p \in QueryComponents \X QueryComponents : p[1] # p[2]}
        Feeds(url) == {[id |-> Md5Prefix(url), name |-> DefaultName[url], url |-> url, loaded |-> FALSE,
                           calendar |-> <<>>]}
                         \cup {[id |-> Md5Prefix(url), name |-> DefaultName[url], url |-> url, loaded |-> TRUE,
                                 calendar |-> c] : c \in Cals}
    IN {<<f>> : f \in Feeds(UrlWork)}
       \cup {<<f, g>> : f \in Feeds(UrlWork), g \in {h \in Feeds(UrlTeam) : Len(h.calendar) < 2}}

\* datetime.now(UTC) of the queries
Now == Day * MinutesPerDay + 540

\* the start_date and end_date the callers pass: None, a date, a date and time, no date at all
StartDates == {<<>>, <<Day - 1>>, <<0, 0>>}
EndDates == {<<>>, <<Day + 2>>, <<Day, 84, 12, 0>>}
MaxLimit == 2
MaxOffset == 3

\* get_events, search_events or get_today_events about to be called without
\* feed_identifiers, or get_upcoming_events with or without them
QueryInit ==
    /\ StoppedService
    /\ call \in [fn : {"get_events"}, at : {"called"}, registry : QueryRegistries,
                  start_date : StartDates, end_date : EndDates,
                  limit : {<<>>} \cup {<<l>> : l \in 0..MaxLimit}, offset : {0, 1, MaxOffset},
                  failing : {{}, {Md5Prefix(UrlWork)}}]
               \cup [fn : {"search_events"}, at : {"called"}, registry : QueryRegistries,
                      query : {"", "stand", "B_Team", "a"}]
               \cup [fn : {"get_today_events"}, at : {"called"}, registry : QueryRegistries,
                      failing : {{}, {Md5Prefix(UrlWork)}}]
               \cup [fn : {"get_upcoming_events"}, at : {"called"}, registry : QueryRegistries,
                      count : 0..MaxLimit,
                      feed_identifiers : {<<>>, <<DefaultName[UrlWork]>>, <<Md5Prefix(UrlTeam)>>, <<"nope">>}]

\* get_events, from its call to its return
GetEventsCall ==
    /\ call.fn = "get_events" /\ call.at = "called"
    /\ call' = [fn |-> call.fn, at |-> "returned", registry |-> call.registry,
                start_date |-> call.start_date, end_date |-> call.end_date,
                limit |-> call.limit, offset |-> call.offset, failing |-> call.failing,
                ret |-> GetEventsResult(call.registry, call.start_date, call.end_date, Now,
                                        call.limit, call.offset, call.failing)]
    /\ UNCHANGED <<feeds, nentries, obj, lock, refresh_timer, timer, constructed, stopped, pc, loc>>

\* search_events, from its call to its return
SearchEventsCall ==
    /\ call.fn = "search_events" /\ call.at = "called"
    /\ call' = [fn |-> call.fn, at |-> "returned", registry |-> call.registry, query |-> call.query,
                ret |-> SearchEventsResult(call.registry, call.query)]
    /\ UNCHANGED <<feeds, nentries, obj, lock, refresh_timer, timer, constructed, stopped, pc, loc>>

\* get_today_events, from its call to its return
GetTodayEventsCall ==
    /\ call.fn = "get_today_events" /\ call.at = "called"
    /\ call' = [fn |-> call.fn, at |-> "returned", registry |-> call.registry, failing |-> call.failing,
                ret |-> GetTodayEventsResult(call.registry, Now, call.failing)]
    /\ UNCHANGED <<feeds, nentries, obj, lock, refresh_timer, timer, constructed, stopped, pc, loc>>

\* get_upcoming_events, from its call to its return
GetUpcomingEventsCall ==
    /\ call.fn = "get_upcoming_events" /\ call.at = "called"
    /\ call' = [fn |-> call.fn, at |-> "returned", registry |-> call.registry, count |-> call.count,
                feed_identifiers |-> call.feed_identifiers,
                ret |-> GetUpcomingEventsResult(call.registry, Now, call.count, call.feed_identifiers)]
    /\ UNCHANGED <<feeds, nentries, obj, lock, refresh_timer, timer, constructed, stopped, pc, loc>>

QueryNext == GetEventsCall \/ SearchEventsCall \/ GetTodayEventsCall \/ GetUpcomingEventsCall

QuerySpec == QueryInit /\ [][QueryNext]_vars

-----------------------------------------------------------------------------
(* The conflict analysis over the events get_events returns *)

\* _is_all_day_event: 'T' not in str(start), or 'T00:00:00' in both strings, or a
\* duration of whole days from midnight
IsAllDayEvent(event) ==
    LET HasT(x) == Len(x) = 4 /\ x[2] = 84
        MidnightT(x) == HasT(x) /\ x[3] = 0 /\ x[4] = 0
        start_dt == NormalizeDatetime(event.start)
        end_dt == NormalizeDatetime(event.end)
    IN \/ ~HasT(event.start)
       \/ MidnightT(event.start) /\ MidnightT(event.end)
       \/ /\ start_dt.ok /\ end_dt.ok
          /\ (end_dt.at - start_dt.at) % MinutesPerDay = 0
          /\ end_dt.at - start_dt.at >= MinutesPerDay
          /\ start_dt.at % MinutesPerDay = 0

\* variant: intervals that touch at a boundary overlap
OverlapsTouching(start1, end1, start2, end2) ==
    start1 <= end2 /\ end1 >= start2

\* _analyze_event_overlap, the two tests that return None: the overlap test and the
\* overlap duration that is not positive
Overlaps(start1, end1, start2, end2) ==
    /\ start1 < end2 /\ end1 > start2
    /\ (IF end1 < end2 THEN end1 ELSE end2) - (IF start1 > start2 THEN start1 ELSE start2) > 0

\* variant: equal boundaries are looked at before the all-day flags
ConflictTypeBoundaryFirst(start1, end1, start2, end2, is_all_day1, is_all_day2) ==
    IF start1 = start2 /\ end1 = end2 THEN "exact_overlap"
    ELSE IF start1 = start2 \/ end1 = end2 THEN "partial_overlap"
    ELSE IF is_all_day1 \/ is_all_day2 THEN "all_day_overlap"
    ELSE "time_overlap"

\* variant: only the first event's all-day flag is looked at
ConflictTypeFirstFlag(start1, end1, start2, end2, is_all_day1, is_all_day2) ==
    IF is_all_day1 THEN "all_day_overlap"
    ELSE IF start1 = start2 /\ end1 = end2 THEN "exact_overlap"
    ELSE IF start1 = start2 \/ end1 = end2 THEN "partial_overlap"
    ELSE "time_overlap"

\* _analyze_event_overlap: conflict_type
ConflictType(start1, end1, start2, end2, is_all_day1, is_all_day2) ==
    IF is_all_day1 \/ is_all_day2 THEN "all_day_overlap"
    ELSE IF start1 = start2 /\ end1 = end2 THEN "exact_overlap"
    ELSE IF start1 = start2 \/ end1 = end2 THEN "partial_overlap"
    ELSE "time_overlap"

\* _analyze_event_overlap: None (conflict FALSE) or the conflict's details
AnalyzeEventOverlap(event1, event2, is_all_day1, is_all_day2) ==
    LET start1 == NormalizeDatetime(event1.start)
        end1 == NormalizeDatetime(event1.end)
        start2 == NormalizeDatetime(event2.start)
        end2 == NormalizeDatetime(event2.end)
        overlap_start == IF start1.at > start2.at THEN start1.at ELSE start2.at
        overlap_end == IF end1.at < end2.at THEN end1.at ELSE end2.at
    IN IF /\ start1.ok /\ end1.ok /\ start2.ok /\ end2.ok
          /\ Overlaps(start1.at, end1.at, start2.at, end2.at)
       THEN [conflict |-> TRUE, overlap_start |-> overlap_start, overlap_end |-> overlap_end,
             overlap_minutes |-> overlap_end - overlap_start,
             conflict_type |-> ConflictType(start1.at, end1.at, start2.at, end2.at, is_all_day1, is_all_day2)]
       ELSE [conflict |-> FALSE, overlap_start |-> 0, overlap_end |-> 0, overlap_minutes |-> 0,
             conflict_type |-> ""]

\* variant: half an hour of time_overlap is not yet high
SeverityAboveHalfHour(conflict_info, event1, event2) ==
    IF conflict_info.conflict_type = "exact_overlap" THEN "high"
    ELSE IF conflict_info.overlap_minutes >= 60 THEN "high"
    ELSE IF conflict_info.conflict_type = "time_overlap" /\ conflict_info.overlap_minutes > 30 THEN "high"
    ELSE IF conflict_info.conflict_type = "all_day_overlap" THEN "low"
    ELSE IF conflict_info.overlap_minutes <= 15 THEN "low"
    ELSE IF IndexFrom(Lower(event1.status), "tentative", 1) # 0
            \/ IndexFrom(Lower(event2.status), "tentative", 1) # 0 THEN "low"
    ELSE "medium"

\* variant: the type exact_overlap does not decide the severity
SeverityByMinutes(conflict_info, event1, event2) ==
    IF conflict_info.overlap_minutes >= 60 THEN "high"
    ELSE IF conflict_info.conflict_type = "time_overlap" /\ conflict_info.overlap_minutes >= 30 THEN "high"
    ELSE IF conflict_info.conflict_type = "all_day_overlap" THEN "low"
    ELSE IF conflict_info.overlap_minutes <= 15 THEN "low"
    ELSE IF IndexFrom(Lower(event1.status), "tentative", 1) # 0
            \/ IndexFrom(Lower(event2.status), "tentative", 1) # 0 THEN "low"
    ELSE "medium"

\* _determine_conflict_severity
DetermineConflictSeverity(conflict_info, event1, event2) ==
    IF conflict_info.conflict_type = "exact_overlap" THEN "high"
    ELSE IF conflict_info.overlap_minutes >= 60 THEN "high"
    ELSE IF conflict_info.conflict_type = "time_overlap" /\ conflict_info.overlap_minutes >= 30 THEN "high"
    ELSE IF conflict_info.conflict_type = "all_day_overlap" THEN "low"
    ELSE IF conflict_info.overlap_minutes <= 15 THEN "low"
    ELSE IF IndexFrom(Lower(event1.status), "tentative", 1) # 0
            \/ IndexFrom(Lower(event2.status), "tentative", 1) # 0 THEN "low"
    ELSE "medium"

\* _meets_severity_threshold
MeetsSeverityThreshold(severity, threshold) ==
    LET severity_levels == [low |-> 1, medium |-> 2, high |-> 3]
    IN threshold = "all" \/ severity_levels[severity] >= severity_levels[threshold]

\* analyze_calendar_conflicts over `events`: the conflicts in the order of the loops,
\* each with the positions i < j of its events in `events`, and the statistics
AnalyzeCalendarConflicts(events, include_all_day, min_overlap_minutes, severity_threshold) ==
    LET n == Len(events)
        pairs == Concat([i \in 1..n |-> [k \in 1..(n - i) |-> <<i, i + k>>]])
        Info(p) == AnalyzeEventOverlap(events[p[1]], events[p[2]],
                                       IsAllDayEvent(events[p[1]]), IsAllDayEvent(events[p[2]]))
        Severity(p) == DetermineConflictSeverity(Info(p), events[p[1]], events[p[2]])
        Reported(p) ==
            /\ include_all_day \/ ~IsAllDayEvent(events[p[1]])
            /\ include_all_day \/ ~IsAllDayEvent(events[p[2]])
            /\ ~(IsAllDayEvent(events[p[1]]) /\ IsAllDayEvent(events[p[2]]))
            /\ Info(p).conflict
            /\ Info(p).overlap_minutes >= min_overlap_minutes
            /\ MeetsSeverityThreshold(Severity(p), severity_threshold)
        kept == SelectSeq(pairs, Reported)
        conflicts == [c \in 1..Len(kept) |->
                        [i |-> kept[c][1], j |-> kept[c][2],
                         event1 |-> [id |-> events[kept[c][1]].uid, all_day |-> IsAllDayEvent(events[kept[c][1]])],
                         event2 |-> [id |-> events[kept[c][2]].uid, all_day |-> IsAllDayEvent(events[kept[c][2]])],
                         overlap_start |-> Info(kept[c]).overlap_start,
                         overlap_end |-> Info(kept[c]).overlap_end,
                         overlap_minutes |-> Info(kept[c]).overlap_minutes,
                         conflict_type |-> Info(kept[c]).conflict_type,
                         severity |-> Severity(kept[c])]]
    IN [conflicts |-> conflicts,
        total_events |-> n,
        events_with_conflicts |->
            Cardinality({conflicts[c].event1.id : c \in 1..Len(conflicts)}
                        \cup {conflicts[c].event2.id : c \in 1..Len(conflicts)})]

\* the components of the analysed calendars, on the day after `Day`: timed events
\* that overlap, touch or coincide, date-only events with and without DTEND, events of
\* whole days from midnight, an event of no length, one that ends before it starts,
\* one without DTSTART and two without UID; and two that recur daily from `Day`
ConflictComponents ==
    LET D == (Day + 1) * MinutesPerDay
        At(m) == DateTimeValue(D + m, TRUE, 0)
        V(uid, dtstart, dtend, duration) == Vevent(uid, "Meeting", dtstart, dtend, duration, 0)
    IN {V("a", At(600), At(660), NoDuration),
        V("b", At(630), Absent, DurationValue(60, TRUE)),
        [V("c", At(600), At(660), NoDuration) EXCEPT !.status = "Tentative"],
        V("d", At(660), At(680), NoDuration),
        [V("e", At(640), At(670), NoDuration) EXCEPT !.status = "TENTATIVE"],
        V("l", At(650), At(660), NoDuration),
        V("p", At(640), At(670), NoDuration),
        V("f", DateValue(Day + 1), DateValue(Day + 2), NoDuration),
        V("g", DateValue(Day + 1), Absent, NoDuration),
        V("h", At(0), At(MinutesPerDay), NoDuration),
        V("i", At(0), At(MinutesPerDay), NoDuration),
        V("j", At(0), Absent, DurationValue(MinutesPerDay, TRUE)),
        V("k", At(0), Absent, NoDuration),
        V("m", At(630), At(630), NoDuration),
        V("n", At(645), At(615), NoDuration),
        V("o", Absent, Absent, NoDuration),
        V("", At(600), At(630), NoDuration),
        V("", At(615), At(645), NoDuration),
        Vevent("r", "Meeting", DateTimeValue(Day * MinutesPerDay + 600, TRUE, 0),
               DateTimeValue(Day * MinutesPerDay + 660, TRUE, 0), NoDuration, 2),
        Vevent("s", "Meeting", DateTimeValue(Day * MinutesPerDay + 630, TRUE, 0),
               DateTimeValue(Day * MinutesPerDay + 690, TRUE, 0), NoDuration, 2)}

\* the calendars analysed: two components in either order, or three of the first timed ones
ConflictCalendars ==
    {p \in ConflictComponents \X ConflictComponents : p[1] # p[2]}
    \cup {p \in ConflictComponents \X ConflictComponents \X ConflictComponents :
            /\ {p[1].uid, p[2].uid, p[3].uid} \subseteq {"a", "b", "c", "f", "l"}
            /\ Cardinality({p[1], p[2], p[3]}) = 3}

MaxDaysAhead == 2
MaxMinOverlap == 30

\* analyze_calendar_conflicts about to be called on a service with one loaded feed
ConflictInit ==
    /\ StoppedService
    /\ call \in [fn : {"analyze_calendar_conflicts"}, at : {"called"},
                 registry : {<<[id |-> Md5Prefix(UrlWork), name |-> DefaultName[UrlWork], loaded |-> TRUE,
                                calendar |-> c]>> : c \in ConflictCalendars},
                 days_ahead : {MaxDaysAhead}, include_all_day : BOOLEAN,
                 min_overlap_minutes : {0, MaxMinOverlap},
                 severity_threshold : {"all", "low", "medium", "high"}]

\* analyze_calendar_conflicts, from its call to its return: get_events for
\* [now, now + days_ahead], then the analysis of what it returned
AnalyzeCall ==
    /\ call.fn = "analyze_calendar_conflicts" /\ call.at = "called"
    /\ LET events == GetEventsResult(call.registry, IsoFormat(Now),
                                     IsoFormat(Now + call.days_ahead * MinutesPerDay), Now, <<>>, 0, {}).events
       IN call' = [fn |-> call.fn, at |-> "returned", registry |-> call.registry,
                   days_ahead |-> call.days_ahead, include_all_day |-> call.include_all_day,
                   min_overlap_minutes |-> call.min_overlap_minutes,
                   severity_threshold |-> call.severity_threshold,
                   events |-> events,
                   ret |-> AnalyzeCalendarConflicts(events, call.include_all_day, call.min_overlap_minutes,
                                                    call.severity_threshold)]
    /\ UNCHANGED <<feeds, nentries, obj, lock, refresh_timer, timer, constructed, stopped, pc, loc>>

ConflictSpec == ConflictInit /\ [][AnalyzeCall]_vars

-----------------------------------------------------------------------------
(* The callables registered as tools *)

\* what the callable registered for operation `op` hands to the tool layer when the
\* service method ended with `result`: add_calendar_feed is add_feed itself, so its
\* exception leaves the callable; remove_feed_for_mcp and refresh_feeds_for_mcp catch
\* every exception and return {"error": ...}
ToolOutcome(op, result) ==
    LET raised == StartsWith(result.status, "ValueError")
    IN CASE op = "add" -> [raised |-> raised, error |-> result.status = "error"]
         [] op = "remove" -> [raised |-> FALSE, error |-> result.status # "removed"]
         [] OTHER -> [raised |-> FALSE, error |-> raised \/ result.status = "error"]

-----------------------------------------------------------------------------
(* get_events with feed_identifiers, beside the scheduler *)

\* variant: no identifier is validated
ValidateNone(f, o, feed_identifiers) == 0

\* get_events, `for identifier in feed_identifiers: self._validate_feed_exists(identifier)`:
\* the index of the identifier that raises ValueError, 0 when none does
ValidateFeedExists(f, o, feed_identifiers) ==
    LET unknown == {i \in 1..Len(feed_identifiers) : FindFeed(f, o, feed_identifiers[i]) = NoRef}
    IN IF unknown = {} THEN 0 ELSE CHOOSE i \in unknown : \A j \in unknown : i <= j

\* get_events(feed_identifiers=...) up to `with self._lock:`: the validation, then
\* feeds_to_query from _find_feed of each identifier, or every feed for an empty list
GetEventsFiltered(t, feed_identifiers) ==
    /\ constructed
    /\ pc[t] = "idle"
    /\ LET bad == ValidateFeedExists(feeds, obj, feed_identifiers)
           found == [i \in 1..Len(feed_identifiers) |-> FindFeed(feeds, obj, feed_identifiers[i])]
       IN IF bad # 0
          THEN /\ loc' = [loc EXCEPT ![t] = [IdleLoc EXCEPT !.op = "get_events", !.arg = feed_identifiers[bad],
                                                !.result = Result("ValueError: not found", "", "",
                                                                  feed_identifiers[bad])]]
               /\ pc' = pc
               /\ call' = [fn |-> "get_events", at |-> "raised", feed_identifiers |-> feed_identifiers]
          ELSE /\ loc' = [loc EXCEPT ![t] = [IdleLoc EXCEPT !.op = "get_events",
                                                !.snap = IF feed_identifiers = <<>> THEN feeds ELSE found]]
               /\ pc' = [pc EXCEPT ![t] = "ge_lock"]
               /\ call' = [fn |-> "get_events", at |-> "validated", feed_identifiers |-> feed_identifiers]
    /\ UNCHANGED <<feeds, nentries, obj, lock, refresh_timer, timer, constructed, stopped>>

\* the feed_identifiers the callers pass
Filters ==
    {<<>>, <<UrlWork>>, <<"nope">>, <<UrlWork, "nope">>, <<"nope", "b-team">>, <<"nope", "gone">>,
     <<"gone", "nope">>, <<"b-team", UrlWork>>}

FilterNext ==
    \/ \E t \in Threads : LoopNext(t)
    \/ \E t \in Threads : FetchAcquire(t)
    \/ \E t \in Threads, outcome \in SchedOutcomes, clock \in SchedTimes : FetchUpdate(t, outcome, clock)
    \/ ScheduleRefresh
    \/ TimerFire
    \/ \E t \in Callers, feed_identifiers \in Filters : GetEventsFiltered(t, feed_identifiers)
    \/ \E t \in Callers : GetEventsEnter(t)
    \/ \E t \in Callers : GetEventsReturn(t)

FilterSpec == Init /\ [][FilterNext]_vars

-----------------------------------------------------------------------------
(* The server's clock tool: get_current_datetime of src/server.py.  The time zone
   database holds UTC and two zones, taken at an instant outside daylight saving time *)

\* ZoneInfo(key): the zone of the database, or the exception for a key it does not hold
ZoneInfo(key) ==
    IF key = "UTC" THEN [raised |-> "", utcoffset |-> 0, tzname |-> "UTC"]
    ELSE IF key = "America/New_York" THEN [raised |-> "", utcoffset |-> 0 - 300, tzname |-> "EST"]
    ELSE IF key = "Asia/Tokyo" THEN [raised |-> "", utcoffset |-> 540, tzname |-> "JST"]
    ELSE IF key = "" THEN [raised |-> "ValueError", utcoffset |-> 0, tzname |-> ""]
    ELSE [raised |-> "ZoneInfoNotFoundError", utcoffset |-> 0, tzname |-> ""]

\* now.strftime("%z"): the sign, two digits of hours and two digits of minutes
StrftimeOffset(utcoffset) ==
    LET Digit == <<"0", "1", "2", "3", "4", "5", "6", "7", "8", "9">>
        TwoDigits(n) == Digit[(n \div 10) + 1] \o Digit[(n % 10) + 1]
        m == IF utcoffset < 0 THEN 0 - utcoffset ELSE utcoffset
    IN (IF utcoffset < 0 THEN "-" ELSE "+") \o TwoDigits(m \div MinutesPerHour) \o TwoDigits(m % MinutesPerHour)

\* variant: the name of the environment is reported whatever ZoneInfo said
ReportConfiguredName(env, now) ==
    LET timezone_str == IF env.set THEN env.value ELSE "UTC"
        first == ZoneInfo(timezone_str)
        tz == IF first.raised # "" THEN ZoneInfo("UTC") ELSE first
        wall == now + tz.utcoffset
    IN [raised |-> IF first.raised # "" THEN tz.raised ELSE "",
        date |-> IsoDate(wall \div MinutesPerDay),
        time |-> <<(wall % MinutesPerDay) \div MinutesPerHour, wall % MinutesPerHour>>,
        datetime |-> IsoFormat(wall),
        timezone |-> timezone_str,
        utc_offset |-> StrftimeOffset(tz.utcoffset),
        timezone_abbr |-> tz.tzname,
        day_of_week |-> (wall \div MinutesPerDay) % 7,
        timestamp |-> now * 60]

\* get_current_datetime with os.environ's TIMEZONE `env` at the instant `now`: the zone
\* of TIMEZONE or of its default "UTC", and "UTC" again when ZoneInfo raised
GetCurrentDatetime(env, now) ==
    LET configured == IF env.set THEN env.value ELSE "UTC"
        first == ZoneInfo(configured)
        tz == IF first.raised # "" THEN ZoneInfo("UTC") ELSE first
        timezone_str == IF first.raised # "" THEN "UTC" ELSE configured
        wall == now + tz.utcoffset
    IN [raised |-> IF first.raised # "" THEN tz.raised ELSE "",
        date |-> IsoDate(wall \div MinutesPerDay),
        time |-> <<(wall % MinutesPerDay) \div MinutesPerHour, wall % MinutesPerHour>>,
        datetime |-> IsoFormat(wall),
        timezone |-> timezone_str,
        utc_offset |-> StrftimeOffset(tz.utcoffset),
        timezone_abbr |-> tz.tzname,
        day_of_week |-> (wall \div MinutesPerDay) % 7,
        timestamp |-> now * 60]

\* os.environ: TIMEZONE unset, empty, a zone of the database or another name
Environments ==
    {[set |-> FALSE, value |-> ""]}
    \cup {[set |-> TRUE, value |-> v] :
             v \in {"", "UTC", "America/New_York", "Asia/Tokyo", "Invalid/Timezone", "utc"}}

\* the instants of the calls: every hour of the days Day - 1 to Day + 1
ClockInstants == {d * MinutesPerDay + h * MinutesPerHour : d \in (Day - 1)..(Day + 1), h \in 0..23}

ClockInit ==
    /\ StoppedService
    /\ call \in [fn : {"get_current_datetime"}, at : {"called"}, env : Environments, now : ClockInstants]

\* get_current_datetime, from its call to its return
GetCurrentDatetimeCall ==
    /\ call.fn = "get_current_datetime" /\ call.at = "called"
    /\ call' = [fn |-> call.fn, at |-> "returned", env |-> call.env, now |-> call.now,
                ret |-> GetCurrentDatetime(call.env, call.now)]
    /\ UNCHANGED <<feeds, nentries, obj, lock, refresh_timer, timer, constructed, stopped, pc, loc>>

ClockSpec == ClockInit /\ [][GetCurrentDatetimeCall]_vars

-----------------------------------------------------------------------------
(* Properties of the normalized events *)

\* the function `fn` of the query layer has returned
Returned(fn) == call.fn = fn /\ call.at = "returned"

\* C11: every normalized event that has a start has an end that is not before it.
C11_EndNotBeforeStart ==
    Returned("_event_to_dict") /\ call.ret.start # <<>> =>
        /\ call.ret.end # <<>>
        /\ NormalizeDatetime(call.ret.end).at >= NormalizeDatetime(call.ret.start).at

\* C12: get_events and search_events return their events in non-decreasing order of
\* the start instant, the events without a start first.
C12_SortedByStart ==
    Returned("get_events") \/ Returned("search_events") =>
        LET events == IF call.fn = "get_events" THEN call.ret.events ELSE call.ret
        IN \A i \in 1..Len(events), j \in 1..Len(events) :
            i < j =>
                /\ events[j].start = <<>> => events[i].start = <<>>
                /\ events[i].start # <<>> /\ events[j].start # <<>> =>
                     NormalizeDatetime(events[i].start).at <= NormalizeDatetime(events[j].start).at

\* a date-only event, a timed event and an event without a start returned together, by both queries
C12_Witness ==
    /\ Returned("get_events")
    /\ \E i, j, k \in 1..Len(call.ret.events) :
        /\ call.ret.events[i].start = <<>>
        /\ call.ret.events[j].all_day
        /\ Len(call.ret.events[k].start) = 4
        /\ call.registry[1].calendar[1].dtstart.kind = "datetime"

\* C13: get_events(limit=L, offset=O) is the slice [O, O+L) of what get_events returns
\* without limit and offset for the same registry and window; an offset at or beyond
\* the length of that result gives an empty sequence and no error.
C13_PageIsSlice ==
    Returned("get_events") /\ call.limit # <<>> =>
        LET full == GetEventsResult(call.registry, call.start_date, call.end_date, Now, <<>>, 0, call.failing)
            page == call.ret
            O == call.offset
            L == call.limit[1]
        IN /\ page.raised = full.raised
           /\ \A i \in 1..Len(page.events) : O + i <= Len(full.events) /\ page.events[i] = full.events[O + i]
           /\ \A k \in 1..Len(full.events) : O < k /\ k <= O + L => k - O <= Len(page.events)
           /\ O >= Len(full.events) => page.events = <<>>

\* a page that starts inside the result and ends before its end, and one beyond its end
C13_Witness ==
    /\ Returned("get_events")
    /\ call.limit = <<1>> /\ call.offset = 1 /\ Len(call.ret.events) = 1
    /\ Len(GetEventsResult(call.registry, call.start_date, call.end_date, Now, <<>>, 0, call.failing).events) = 3

\* C14: get_events called with feed_identifiers of which one matches no registered feed
\* raises ValueError naming the first such identifier of the list; it does so without
\* taking the registry lock and without reading a calendar, and returns no events, also
\* when other identifiers of the list are registered.
C14_UnknownFilterRaisesFirst ==
    [][\A t \in Callers, ids \in Filters :
        (/\ GetEventsFiltered(t, ids)
         /\ \E i \in 1..Len(ids) : FindFeed(feeds, obj, ids[i]) = NoRef)
        => /\ \E i \in 1..Len(ids) :
                /\ FindFeed(feeds, obj, ids[i]) = NoRef
                /\ \A j \in 1..(i - 1) : FindFeed(feeds, obj, ids[j]) # NoRef
                /\ loc'[t].result = Result("ValueError: not found", "", "", ids[i])
           /\ pc'[t] = "idle"
           /\ lock' = lock
           /\ loc'[t].events = {} /\ loc'[t].snap = <<>>]_vars

\* the call raised for the second identifier, the first being registered, while the
\* scheduler held the lock
C14_Witness ==
    /\ call.fn = "get_events" /\ call.at = "raised"
    /\ call.feed_identifiers = <<UrlWork, "nope">>
    /\ FindFeed(feeds, obj, UrlWork) # NoRef
    /\ loc["c1"].result.detail = "nope"
    /\ lock = Scheduler

\* C15: every callable registered as a tool returns a value for every input and every
\* registry state; a failure inside it is returned as a value with an error field and is
\* never raised past the callable.
C15_ToolsNeverRaise ==
    \A t \in Callers :
        pc[t] = "idle" /\ loc[t].op # "none" => ~ToolOutcome(loc[t].op, loc[t].result).raised

-----------------------------------------------------------------------------
(* Properties of the conflict analysis *)

\* analyze_calendar_conflicts has returned
Analysed == Returned("analyze_calendar_conflicts")

\* the start and the end of the event at position i of the analysed events, as instants
StartOf(i) == NormalizeDatetime(call.events[i].start).at
EndOf(i) == NormalizeDatetime(call.events[i].end).at

\* the events at positions i and j both have a start, and the all-day rule does not skip the pair
Compared(i, j) ==
    /\ call.events[i].start # <<>> /\ call.events[j].start # <<>>
    /\ call.include_all_day \/ (~IsAllDayEvent(call.events[i]) /\ ~IsAllDayEvent(call.events[j]))
    /\ ~(IsAllDayEvent(call.events[i]) /\ IsAllDayEvent(call.events[j]))

\* the conflicts reported for the events at positions i and j
ConflictsOf(i, j) ==
    {c \in 1..Len(call.ret.conflicts) : call.ret.conflicts[c].i = i /\ call.ret.conflicts[c].j = j}

\* C16, as stated: with min_overlap_minutes = 0 and severity_threshold = all, a pair the
\* all-day rule does not skip is reported if and only if start1 < end2 and end1 > start2.
C16_ConflictIffIntervalsMeet ==
    Analysed /\ call.min_overlap_minutes = 0 /\ call.severity_threshold = "all" =>
        \A i \in 1..Len(call.events), j \in 1..Len(call.events) :
            i < j /\ Compared(i, j) =>
                (ConflictsOf(i, j) # {} <=> StartOf(i) < EndOf(j) /\ EndOf(i) > StartOf(j))

\* C16, amended: with min_overlap_minutes = 0 and severity_threshold = all, a pair the
\* all-day rule does not skip is reported if and only if start1 < end2, end1 > start2
\* and the overlap [max(start1,start2), min(end1,end2)] is not empty; the conflict
\* carries that interval, and two events that only touch give no conflict.
C16_ConflictIffOverlapNotEmpty ==
    Analysed /\ call.min_overlap_minutes = 0 /\ call.severity_threshold = "all" =>
        \A i \in 1..Len(call.events), j \in 1..Len(call.events) :
            i < j /\ Compared(i, j) =>
                LET lo == IF StartOf(i) > StartOf(j) THEN StartOf(i) ELSE StartOf(j)
                    hi == IF EndOf(i) < EndOf(j) THEN EndOf(i) ELSE EndOf(j)
                IN /\ ConflictsOf(i, j) # {} <=>
                        (StartOf(i) < EndOf(j) /\ EndOf(i) > StartOf(j) /\ lo < hi)
                   /\ \A c \in ConflictsOf(i, j) :
                        /\ call.ret.conflicts[c].overlap_start = lo
                        /\ call.ret.conflicts[c].overlap_end = hi
                   /\ (EndOf(i) = StartOf(j) \/ EndOf(j) = StartOf(i)) => ConflictsOf(i, j) = {}

\* an event of no length inside another event: the intervals meet, nothing is reported
C16_Witness ==
    /\ Analysed /\ call.min_overlap_minutes = 0 /\ call.severity_threshold = "all"
    /\ Len(call.events) = 2 /\ Compared(1, 2)
    /\ StartOf(2) = EndOf(2)
    /\ StartOf(1) < EndOf(2) /\ EndOf(1) > StartOf(2)
    /\ call.ret.conflicts = <<>>

\* C17: analysing (A, B) and (B, A) gives a conflict in the same cases, with the same
\* overlap_minutes, conflict_type and severity; the report has each unordered pair of
\* distinct events at most once and no event paired with itself; and the events taken
\* in the opposite order give the same conflicts.
C17_SymmetricIrreflexive ==
    Analysed =>
        LET events == call.events
            n == Len(events)
            Info(i, j) == AnalyzeEventOverlap(events[i], events[j], IsAllDayEvent(events[i]), IsAllDayEvent(events[j]))
            Facts(r) == {<<{r.conflicts[c].event1.id, r.conflicts[c].event2.id}, r.conflicts[c].overlap_minutes,
                           r.conflicts[c].conflict_type, r.conflicts[c].severity>> : c \in 1..Len(r.conflicts)}
            reversed == [i \in 1..n |-> events[n + 1 - i]]
        IN /\ \A i \in 1..n, j \in 1..n :
                i # j =>
                    /\ Info(i, j).conflict = Info(j, i).conflict
                    /\ Info(i, j).overlap_minutes = Info(j, i).overlap_minutes
                    /\ Info(i, j).conflict_type = Info(j, i).conflict_type
                    /\ Info(i, j).conflict =>
                         DetermineConflictSeverity(Info(i, j), events[i], events[j])
                           = DetermineConflictSeverity(Info(j, i), events[j], events[i])
           /\ \A c \in 1..Len(call.ret.conflicts) : call.ret.conflicts[c].i < call.ret.conflicts[c].j
           /\ \A i \in 1..n, j \in 1..n : Cardinality(ConflictsOf(i, j)) <= 1
           /\ Facts(call.ret) = Facts(AnalyzeCalendarConflicts(reversed, call.include_all_day,
                                                              call.min_overlap_minutes, call.severity_threshold))

\* three events of which every two conflict, one of them all-day
C17_Witness ==
    /\ Analysed
    /\ Len(call.events) = 3 /\ Len(call.ret.conflicts) = 3
    /\ \E c \in 1..3 : call.ret.conflicts[c].conflict_type = "all_day_overlap"

\* C18, as stated: the conflict_type of a reported conflict is exact_overlap if both
\* starts and both ends are equal, else partial_overlap if one boundary is equal, else
\* all_day_overlap if either event is all-day, else time_overlap.
C18_TypeBoundaryFirst ==
    Analysed =>
        \A c \in 1..Len(call.ret.conflicts) :
            LET i == call.ret.conflicts[c].i
                j == call.ret.conflicts[c].j
            IN call.ret.conflicts[c].conflict_type =
                 IF StartOf(i) = StartOf(j) /\ EndOf(i) = EndOf(j) THEN "exact_overlap"
                 ELSE IF StartOf(i) = StartOf(j) \/ EndOf(i) = EndOf(j) THEN "partial_overlap"
                 ELSE IF IsAllDayEvent(call.events[i]) \/ IsAllDayEvent(call.events[j]) THEN "all_day_overlap"
                 ELSE "time_overlap"

\* C18, amended: the conflict_type of a reported conflict is all_day_overlap if either
\* event is all-day, else exact_overlap if both starts and both ends are equal, else
\* partial_overlap if exactly one boundary is equal, else time_overlap.
C18_TypeAllDayFirst ==
    Analysed =>
        \A c \in 1..Len(call.ret.conflicts) :
            LET i == call.ret.conflicts[c].i
                j == call.ret.conflicts[c].j
            IN call.ret.conflicts[c].conflict_type =
                 IF IsAllDayEvent(call.events[i]) \/ IsAllDayEvent(call.events[j]) THEN "all_day_overlap"
                 ELSE IF StartOf(i) = StartOf(j) /\ EndOf(i) = EndOf(j) THEN "exact_overlap"
                 ELSE IF (StartOf(i) = StartOf(j)) # (EndOf(i) = EndOf(j)) THEN "partial_overlap"
                 ELSE "time_overlap"

\* an all-day event and a timed event that starts with it, reported as all_day_overlap
C18_Witness ==
    /\ Analysed /\ Len(call.events) = 2 /\ Len(call.ret.conflicts) = 1
    /\ StartOf(1) = StartOf(2) /\ EndOf(1) # EndOf(2)
    /\ IsAllDayEvent(call.events[1]) # IsAllDayEvent(call.events[2])
    /\ call.ret.conflicts[1].conflict_type = "all_day_overlap"

\* C19, as stated: with the default filters, two distinct events with the same start and
\* the same end, the interval not empty, give exactly one conflict, of type
\* exact_overlap and severity high, at whatever time the interval starts and however
\* long it is.
C19_SameIntervalExactHigh ==
    Analysed /\ ~call.include_all_day /\ call.min_overlap_minutes = 0 /\ call.severity_threshold = "all" =>
        \A i \in 1..Len(call.events), j \in 1..Len(call.events) :
            (/\ i < j
             /\ call.events[i].start # <<>> /\ call.events[j].start # <<>>
             /\ StartOf(i) = StartOf(j) /\ EndOf(i) = EndOf(j) /\ StartOf(i) < EndOf(i))
            => /\ Cardinality(ConflictsOf(i, j)) = 1
               /\ \A c \in ConflictsOf(i, j) :
                    /\ call.ret.conflicts[c].conflict_type = "exact_overlap"
                    /\ call.ret.conflicts[c].severity = "high"

\* C19, amended: with the default filters, two distinct events with the same start and
\* the same end, the interval not empty, neither of them all-day for the analyzer (a
\* start without time, or whole days from midnight), give exactly one conflict, of type
\* exact_overlap and severity high.
C19_SameIntervalTimedExactHigh ==
    Analysed /\ ~call.include_all_day /\ call.min_overlap_minutes = 0 /\ call.severity_threshold = "all" =>
        \A i \in 1..Len(call.events), j \in 1..Len(call.events) :
            (/\ i < j
             /\ call.events[i].start # <<>> /\ call.events[j].start # <<>>
             /\ StartOf(i) = StartOf(j) /\ EndOf(i) = EndOf(j) /\ StartOf(i) < EndOf(i)
             /\ ~IsAllDayEvent(call.events[i]) /\ ~IsAllDayEvent(call.events[j]))
            => /\ Cardinality(ConflictsOf(i, j)) = 1
               /\ \A c \in ConflictsOf(i, j) :
                    /\ call.ret.conflicts[c].conflict_type = "exact_overlap"
                    /\ call.ret.conflicts[c].severity = "high"

\* two events of the same half hour, one of them tentative, reported as exact_overlap, high
C19_Witness ==
    /\ Analysed /\ ~call.include_all_day /\ call.min_overlap_minutes = 0 /\ call.severity_threshold = "all"
    /\ Len(call.events) = 2
    /\ StartOf(1) = StartOf(2) /\ EndOf(1) = EndOf(2) /\ EndOf(1) - StartOf(1) = 30
    /\ Len(call.ret.conflicts) = 1
    /\ call.ret.conflicts[1].conflict_type = "exact_overlap" /\ call.ret.conflicts[1].severity = "high"

C21_AllDayAgainstTimed ==
    Analysed /\ call.min_overlap_minutes = 0 /\ call.severity_threshold = "all" =>
        \A i \in 1..Len(call.events), j \in 1..Len(call.events) :
            /\ (/\ i # j
                /\ call.events[i].all_day
                /\ call.events[j].start # <<>> /\ ~IsAllDayEvent(call.events[j])
                /\ StartOf(i) <= StartOf(j) /\ StartOf(j) < EndOf(j)
                /\ EndOf(j) <= StartOf(i) + MinutesPerDay)
               => LET found == ConflictsOf(i, j) \cup ConflictsOf(j, i)
                  IN IF call.include_all_day
                     THEN /\ Cardinality(found) = 1
                          /\ \A c \in found : call.ret.conflicts[c].conflict_type = "all_day_overlap"
                     ELSE found = {}
            /\ (IsAllDayEvent(call.events[i]) /\ IsAllDayEvent(call.events[j])) => ConflictsOf(i, j) = {}

\* a name or a query with its letters in lower case and every underscore and hyphen read as a space
Canon(s) == Replace(Replace(Lower(s), "_", " "), "-", " ")

\* C22: a search without feed filter whose query equals the name of a loaded feed, up to
\* letter case and up to spaces, underscores and hyphens, returns every event of that feed.
C22_FeedNameReturnsAllEvents ==
    Returned("search_events") /\ call.query # "" =>
        \A f \in 1..Len(call.registry) :
            LET feed == call.registry[f]
            IN (feed.loaded /\ Canon(call.query) = Canon(feed.name)) =>
                   \A i \in 1..Len(feed.calendar) :
                       \E k \in 1..Len(call.ret) : call.ret[k] = EventToDict(feed.calendar[i], feed)

\* the window of a get_events call: its start_date or now, its end_date or seven days later
WindowStart == IF call.start_date # <<>> THEN NormalizeDatetime(call.start_date) ELSE [ok |-> TRUE, at |-> Now]
WindowEnd ==
    IF call.end_date # <<>> THEN NormalizeDatetime(call.end_date)
    ELSE [ok |-> WindowStart.ok, at |-> WindowStart.at + 7 * MinutesPerDay]

\* the component has a start and the start lies within the window of the call
StartsInWindow(c) ==
    /\ c.dtstart.kind # "none"
    /\ WindowStart.at <= NormalizeDt(c.dtstart) /\ NormalizeDt(c.dtstart) <= WindowEnd.at

\* C23: when the expansion of a feed fails, get_events returns normally and that feed
\* contributes exactly its components whose start lies within the window, each once and
\* un-expanded; every other feed contributes what it contributes without the failure.
C23_FallbackStartsInWindow ==
    (/\ Returned("get_events") /\ WindowStart.ok /\ WindowEnd.ok
     /\ call.limit = <<>> /\ call.offset = 0) =>
        /\ call.ret.raised = ""
        /\ \A f \in 1..Len(call.registry) :
               LET feed == call.registry[f]
                   Of(c) == {k \in 1..Len(call.ret.events) : call.ret.events[k] = EventToDict(c, feed)}
                   Mine == {k \in 1..Len(call.ret.events) : call.ret.events[k].source_feed_id = feed.id}
               IN IF feed.loaded /\ feed.id \in call.failing
                  THEN /\ \A i \in 1..Len(feed.calendar) :
                             Cardinality(Of(feed.calendar[i])) = IF StartsInWindow(feed.calendar[i]) THEN 1 ELSE 0
                       /\ \A k \in Mine : \E i \in 1..Len(feed.calendar) : k \in Of(feed.calendar[i])
                  ELSE [i \in 1..Cardinality(Mine) |->
                           call.ret.events[CHOOSE k \in Mine : Cardinality({m \in Mine : m < k}) = i - 1]]
                       = GetEventsResult(<<feed>>, call.start_date, call.end_date, Now, <<>>, 0, {}).events

\* C24: get_events called with a start_date or an end_date that is no parseable date
\* raises the validation error (ValueError) instead of returning events.
C24_BadDateRaisesValidationError ==
    (/\ Returned("get_events")
     /\ \/ call.start_date # <<>> /\ ~NormalizeDatetime(call.start_date).ok
        \/ call.end_date # <<>> /\ ~NormalizeDatetime(call.end_date).ok)
        => call.ret.raised = "ValueError"

\* C25: get_today_events is get_events from today's midnight to tomorrow's, and
\* get_upcoming_events(count) is the first count events of get_events from now on: a
\* recurring event contributes its expanded occurrences and an unknown feed identifier
\* is rejected with ValueError.
C25_ConvenienceQueriesAreGetEvents ==
    /\ Returned("get_today_events") =>
           call.ret = GetEventsResult(call.registry, <<Day, 84, 0, 0>>, <<Day + 1, 84, 0, 0>>, Now, <<>>, 0,
                                      call.failing)
    /\ Returned("get_upcoming_events") =>
           LET Known(identifier) == \E k \in 1..Len(call.registry) :
                   identifier \in {call.registry[k].id, call.registry[k].url, call.registry[k].name}
           IN IF \E i \in 1..Len(call.feed_identifiers) : ~Known(call.feed_identifiers[i])
              THEN call.ret.raised = "ValueError"
              ELSE call.feed_identifiers = <<>> =>
                       call.ret.events
                           = Slice(GetEventsResult(call.registry, <<>>, <<>>, Now, <<>>, 0, {}).events, 0, call.count)

\* C26: get_current_datetime raises nothing; with TIMEZONE unset or naming no zone of
\* the database it reports timezone "UTC" with utc_offset "+0000", and with TIMEZONE
\* naming a zone it reports that name.
C26_TimezoneFallsBackToUTC ==
    Returned("get_current_datetime") =>
        /\ call.ret.raised = ""
        /\ IF ~call.env.set \/ ZoneInfo(call.env.value).raised # ""
           THEN call.ret.timezone = "UTC" /\ call.ret.utc_offset = "+0000"
           ELSE call.ret.timezone = call.env.value

\* TIMEZONE names no zone and the call has reported UTC; it names Tokyo and the call
\* has reported Tokyo nine hours ahead
C26_Witness ==
    /\ Returned("get_current_datetime")
    /\ \/ /\ call.env = [set |-> TRUE, value |-> "Invalid/Timezone"]
          /\ call.ret.timezone = "UTC" /\ call.ret.utc_offset = "+0000"
          /\ call.ret.datetime = IsoFormat(call.now)
       \/ /\ call.env = [set |-> TRUE, value |-> "Asia/Tokyo"]
          /\ call.ret.timezone = "Asia/Tokyo" /\ call.ret.utc_offset = "+0900"
          /\ call.now = Day * MinutesPerDay + 23 * MinutesPerHour
          /\ call.ret.date = <<Day + 1>>

\* C27: a search without feed filter returns every event of every loaded feed whose
\* summary, description or location contains the query without regard to letter case,
\* whatever the names of the feeds.
C27_TextMatchesOfEveryFeed ==
    Returned("search_events") /\ call.query # "" =>
        \A f \in 1..Len(call.registry) :
            LET feed == call.registry[f]
                Contains(text) == IndexFrom(Lower(text), Lower(call.query), 1) # 0
            IN feed.loaded =>
                   \A i \in 1..Len(feed.calendar) :
                       LET c == feed.calendar[i]
                       IN (Contains(c.summary) \/ Contains(c.description) \/ Contains(c.location)) =>
                              \E k \in 1..Len(call.ret) : call.ret[k] = EventToDict(c, feed)

\* C28: events_with_conflicts of a conflict report is the number of distinct events, as
\* get_events returned them, that take part in at least one reported conflict.
C28_CountsDistinctEvents ==
    Analysed =>
        call.ret.events_with_conflicts
            = Cardinality({e \in 1..Len(call.events) :
                              \E c \in 1..Len(call.ret.conflicts) :
                                  call.ret.conflicts[c].i = e \/ call.ret.conflicts[c].j = e})

\* C29: when add_feed registers a feed for a valid url that was not registered, the
\* registry grows by one, every feed registered before is still registered with its
\* state unchanged, and _find_feed by url resolves each of them as it did before.
C29_AddKeepsEarlierFeeds ==
    [][\A t \in Callers :
        (AddCalled(t) /\ pc'[t] = "want_lock") =>
            /\ Len(feeds') = Len(feeds) + 1
            /\ \A i \in 1..Len(feeds) :
                   /\ feeds[i] \in Range(feeds')
                   /\ obj'[feeds[i]] = obj[feeds[i]]
                   /\ FindFeed(feeds, obj, obj[feeds[i]].url) = feeds[i]
                          => FindFeed(feeds', obj', obj[feeds[i]].url) = feeds[i]
      ]_vars

\* C30: while a run of refresh_all_calendars, scheduled or manual, is iterating over the
\* registry, no add_feed or remove_feed changes the registry, and the iteration does
\* not end with an error.
C30_RegistryFixedDuringRefresh ==
    [][\A t \in Threads :
        (loc[t].op \in LoopOps /\ pc[t] \in {"loop", "want_lock", "in_fetch"}) =>
            /\ feeds' = feeds
            /\ loc'[t].result.status # "RuntimeError"
      ]_vars


====
